---------------------------- MODULE Spec2Model ----------------------------
(***************************************************************************)
(* A model of the Gos toolchain (wayuto/Gos, TypeScript revision): the     *)
(* bytecode Compiler, the GVM, the tree-walking Interpreter with its       *)
(* Context, and the binary Serializer.                                     *)
(*                                                                         *)
(* Values.  A Literal of the source (string | number | boolean | void) is  *)
(* a record [t, n, s]: t is the JavaScript type ("unit" is undefined,      *)
(* "nan" is the number NaN), n the number (0/1 for a boolean), s the       *)
(* string as the sequence of its code points.  Every value has the same    *)
(* three fields so that any two values can be compared.  Numbers are       *)
(* integers: the programs of the model never produce a fraction.           *)
(*                                                                         *)
(* Node tags.  Interpreter.eval dispatches a literal under the tag "Value" *)
(* (src/src/core.ts:86), the name the node has in the ast.ts revision it   *)
(* imports; the Parser and the Compiler under src/ name the same node      *)
(* "Val".  The model uses the one tag "Val" for both.                      *)
(***************************************************************************)
EXTENDS Integers, Sequences, FiniteSets, TLC

(***************************************************************************)
(* Literal values and the JavaScript operators the back-ends apply to them *)
(***************************************************************************)
Unit == [t |-> "unit", n |-> 0, s |-> <<>>]

NaN == [t |-> "nan", n |-> 0, s |-> <<>>]

Num(k) == [t |-> "num", n |-> k, s |-> <<>>]

Bool(b) == [t |-> "bool", n |-> IF b THEN 1 ELSE 0, s |-> <<>>]

Str(x) == [t |-> "str", n |-> 0, s |-> x]

\* Infinity (sign 1) and -Infinity (sign -1), the quotients of x / 0
Inf(sign) == [t |-> "inf", n |-> sign, s |-> <<>>]

\* ToNumber: undefined is NaN, true/false are 1/0, "" is 0; no other string
\* of the model is numeric.
ToNumber(v) ==
  CASE v.t = "num" -> v
    [] v.t = "bool" -> Num(v.n)
    [] v.t = "str" -> IF v.s = <<>> THEN Num(0) ELSE NaN
    [] v.t = "inf" -> v
    [] OTHER -> NaN

\* ToBoolean, as `!cond`, `if (...)` and `while (...)` apply it.
Truthy(v) ==
  CASE v.t = "num" -> v.n # 0
    [] v.t = "bool" -> v.n = 1
    [] v.t = "str" -> v.s # <<>>
    [] v.t = "inf" -> TRUE
    [] OTHER -> FALSE

\* left === right
StrictEq(l, r) == l.t = r.t /\ l.t # "nan" /\ l.n = r.n /\ l.s = r.s

\* (left as number) op (right as number) for - * : both operands go through
\* ToNumber.  No expression of the model computes with an infinite operand
\* (TLC stops if one is reached).
Arith(op, l, r) ==
  LET a == ToNumber(l)
      b == ToNumber(r)
  IN  IF a.t = "nan" \/ b.t = "nan" THEN NaN
      ELSE CASE a.t = "num" /\ b.t = "num" /\ op = "-" -> Num(a.n - b.n)
             [] a.t = "num" /\ b.t = "num" /\ op = "*" -> Num(a.n * b.n)
             [] a.t = "num" /\ b.t = "num" /\ op = "+" -> Num(a.n + b.n)

\* left + right: number addition unless an operand is a string.  The model
\* has no program that concatenates, so a string operand is left undefined
\* (TLC stops if one is reached).
JsAdd(l, r) ==
  CASE l.t # "str" /\ r.t # "str" -> Arith("+", l, r)

\* left / right on numbers: the model divides only where the quotient is an
\* integer, or the divisor is (positive) zero: x / 0 is Infinity, -Infinity
\* or, for 0 / 0, NaN.
JsDiv(l, r) ==
  LET a == ToNumber(l)
      b == ToNumber(r)
  IN  CASE a.t = "nan" \/ b.t = "nan" -> NaN
        [] a.t = "num" /\ b.t = "num" /\ b.n = 0 ->
             IF a.n = 0 THEN NaN ELSE Inf(IF a.n > 0 THEN 1 ELSE -1)
        [] a.t = "num" /\ b.t = "num" /\ b.n > 0 /\ a.n % b.n = 0 ->
             Num(a.n \div b.n)

\* left < right etc.: the operands of the model are never two strings, so
\* both go through ToNumber and a NaN makes the comparison false.
Rel(op, l, r) ==
  CASE ~(l.t = "str" /\ r.t = "str") ->
    LET a == ToNumber(l)
        b == ToNumber(r)
    IN  IF a.t = "nan" \/ b.t = "nan" THEN Bool(FALSE)
        ELSE CASE a.t = "num" /\ b.t = "num" /\ op = ">" -> Bool(a.n > b.n)
               [] a.t = "num" /\ b.t = "num" /\ op = ">=" -> Bool(a.n >= b.n)
               [] a.t = "num" /\ b.t = "num" /\ op = "<" -> Bool(a.n < b.n)
               [] a.t = "num" /\ b.t = "num" /\ op = "<=" -> Bool(a.n <= b.n)

\* -(val as number)
JsNeg(v) ==
  LET a == ToNumber(v)
  IN  CASE a.t = "nan" -> NaN
        [] a.t = "inf" -> Inf(0 - a.n)
        [] OTHER -> Num(0 - a.n)

(***************************************************************************)
(* AST nodes (ast.ts)                                                      *)
(***************************************************************************)
NoNode == [type |-> "None"]

Val(v) == [type |-> "Val", value |-> v]

Var(name) == [type |-> "Var", name |-> name]

VarDecl(name, value) == [type |-> "VarDecl", name |-> name, value |-> value]

VarMod(name, value) == [type |-> "VarMod", name |-> name, value |-> value]

BinOp(op, left, right) ==
  [type |-> "BinOp", op |-> op, left |-> left, right |-> right]

UnaryOp(op, argument) == [type |-> "UnaryOp", op |-> op, argument |-> argument]

Out(value) == [type |-> "Out", value |-> value]

If(cond, body) == [type |-> "If", cond |-> cond, body |-> body, else |-> NoNode]

IfElse(cond, body, els) ==
  [type |-> "If", cond |-> cond, body |-> body, else |-> els]

While(cond, body) == [type |-> "While", cond |-> cond, body |-> body]

Stmt(body) == [type |-> "Stmt", body |-> body]

FuncDecl(name, params, body) ==
  [type |-> "FuncDecl", name |-> name, params |-> params, body |-> body]

FuncCall(name, args) == [type |-> "FuncCall", name |-> name, args |-> args]

Return(value) == [type |-> "Return", value |-> value]

Label(name) == [type |-> "Label", name |-> name]

Goto(name) == [type |-> "Goto", name |-> name]

Exit(status) == [type |-> "Exit", status |-> status]

In(name) == [type |-> "In", name |-> name]

Program(body) == [type |-> "Program", body |-> body]

(***************************************************************************)
(* Lexer (lexer.ts).  The source text is a sequence of characters, each a  *)
(* string of length one; pos counts from 0 as in the code.  An identifier  *)
(* and a keyword are the string of their characters, a string literal is   *)
(* the sequence of its code points.                                        *)
(***************************************************************************)
\* this.current() past the end of the text: "\0"
NUL == "NUL"

Digits == <<"0", "1", "2", "3", "4", "5", "6", "7", "8", "9">>

\* isdigit (utils.ts)
isdigit(ch) == \E i \in 1..Len(Digits) : Digits[i] = ch

\* parseInt of one digit
parseInt(ch) == (CHOOSE i \in 1..Len(Digits) : Digits[i] = ch) - 1

\* The printable ASCII characters from the space (32) to the tilde (126);
\* the grave accent (96) is not a character of the texts of the model
Ascii ==
  <<" ", "!", "\"", "#", "$", "%", "&", "'", "(", ")", "*", "+", ",", "-", ".", "/",
    "0", "1", "2", "3", "4", "5", "6", "7", "8", "9", ":", ";", "<", "=", ">", "?",
    "@", "A", "B", "C", "D", "E", "F", "G", "H", "I", "J", "K", "L", "M", "N", "O",
    "P", "Q", "R", "S", "T", "U", "V", "W", "X", "Y", "Z", "[", "\\", "]", "^", "_",
    "GRAVE", "a", "b", "c", "d", "e", "f", "g", "h", "i", "j", "k", "l", "m", "n", "o",
    "p", "q", "r", "s", "t", "u", "v", "w", "x", "y", "z", "{", "|", "}", "~">>

\* The code unit of a character of the text
charCode(ch) ==
  IF ch = "\n" THEN 10
  ELSE IF ch = "\t" THEN 9
  ELSE (CHOOSE i \in 1..Len(Ascii) : Ascii[i] = ch) + 31

\* isalpha (utils.ts): A-Z, a-z, _ and the backslash
isalpha(ch) ==
  \E i \in 1..Len(Ascii) :
    /\ Ascii[i] = ch
    /\ \/ i + 31 >= 65 /\ i + 31 <= 90
       \/ i + 31 >= 97 /\ i + 31 <= 122
       \/ i + 31 = 95
       \/ i + 31 = 92

Token(type) == [type |-> type, name |-> "", value |-> Unit]

Ident(name) == [type |-> "IDENT", name |-> name, value |-> Unit]

Literal(value) == [type |-> "LITERAL", name |-> "", value |-> value]

\* A Lexer constructed for a text: pos 0, tok EOF
NewLexer == [pos |-> 0, tok |-> Token("EOF"), err |-> ""]

current(src, pos) == IF pos < Len(src) THEN src[pos + 1] ELSE NUL

RECURSIVE skipSpaces(_, _)
skipSpaces(src, pos) ==
  IF current(src, pos) \in {" ", "\t", "\n"} THEN skipSpaces(src, pos + 1) ELSE pos

\* The loops of parseNumber over the digits: the number read and the place
\* after it
RECURSIVE digits(_, _, _, _)
digits(src, pos, n, count) ==
  IF isdigit(current(src, pos))
  THEN digits(src, pos + 1, (n * 10) + parseInt(current(src, pos)), count + 1)
  ELSE [pos |-> pos, n |-> n, count |-> count]

\* parseNumber: intPart + fracPart / fracDiv; a number with a fraction that
\* is not 0 is kept as its two parts
parseNumber(src, pos) ==
  LET int == digits(src, pos, 0, 0)
      frac == digits(src, int.pos + 1, 0, 0)
  IN  IF current(src, int.pos) # "."
      THEN [pos |-> int.pos, value |-> Num(int.n), err |-> ""]
      ELSE IF ~isdigit(current(src, int.pos + 1))
           THEN [pos |-> int.pos + 1, value |-> Num(int.n),
                 err |-> "Lexer: Invalid number"]
      ELSE [pos |-> frac.pos,
            value |-> IF frac.n = 0 THEN Num(int.n)
                      ELSE [t |-> "double", n |-> int.n, s |-> <<frac.n, frac.count>>],
            err |-> ""]

RECURSIVE parseAlpha(_, _, _)
parseAlpha(src, pos, alpha) ==
  IF isalpha(current(src, pos))
  THEN parseAlpha(src, pos + 1, alpha \o current(src, pos))
  ELSE [pos |-> pos, alpha |-> alpha]

\* The loop over a string literal up to the closing quote
RECURSIVE parseString(_, _, _, _)
parseString(src, pos, quote, s) ==
  IF current(src, pos) = quote THEN [pos |-> pos + 1, s |-> s, err |-> ""]
  ELSE IF current(src, pos) = NUL THEN [pos |-> pos, s |-> s, err |-> "Lexer: Expected quote"]
  ELSE parseString(src, pos + 1, quote, Append(s, charCode(current(src, pos))))

RECURSIVE skipComment(_, _)
skipComment(src, pos) ==
  IF current(src, pos) \in {"\n", NUL} THEN pos ELSE skipComment(src, pos + 1)

\* isPrefix, asked at the sign at pos when tok is the token before it
isPrefix(src, pos, tok) ==
  LET prev == IF pos > 0 THEN src[pos] ELSE " "
  IN  \/ tok.type \in {"EOF", "LPAREN", "OP_EQ", "COLON"}
      \/ prev \in {"=", "(", ":"}

Keywords ==
  [let |-> "VAR_DECL", out |-> "OUT", in |-> "IN", if |-> "IF", else |-> "ELSE",
   while |-> "WHILE", goto |-> "GOTO", del |-> "VAR_DEL", exit |-> "EXIT",
   fun |-> "FUNC_DECL", return |-> "RETURN"]

\* The token of a character that is a token alone
Single ==
  [c \in {"*", "/", "(", ")", "{", "}", "^", ":"} |->
     CASE c = "*" -> "OP_MUL"
       [] c = "/" -> "OP_DIV"
       [] c = "(" -> "LPAREN"
       [] c = ")" -> "RPAREN"
       [] c = "{" -> "LBRACE"
       [] c = "}" -> "RBRACE"
       [] c = "^" -> "LOG_XOR"
       [] c = ":" -> "COLON"]

\* The tokens of a character and of the character doubled or followed by =
Double ==
  [c \in {"=", "!", ">", "<", "&", "|"} |->
     CASE c = "=" -> [then |-> "=", two |-> "COMP_EQ", one |-> "OP_EQ"]
       [] c = "!" -> [then |-> "=", two |-> "COMP_NE", one |-> "LOG_NOT"]
       [] c = ">" -> [then |-> "=", two |-> "COMP_GE", one |-> "COMP_GT"]
       [] c = "<" -> [then |-> "=", two |-> "COMP_LE", one |-> "COMP_LT"]
       [] c = "&" -> [then |-> "&", two |-> "COMP_AND", one |-> "LOG_AND"]
       [] c = "|" -> [then |-> "|", two |-> "COMP_OR", one |-> "LOG_OR"]]

\* The branch of nextToken for + and -
signToken(src, pos, tok, sign) ==
  IF isPrefix(src, pos, tok)
  THEN [pos |-> pos + 1, tok |-> Token(IF sign = "+" THEN "OP_POS" ELSE "OP_NEG"),
        err |-> ""]
  ELSE IF current(src, pos + 1) = sign
       THEN [pos |-> pos + 2, tok |-> Token(IF sign = "+" THEN "OP_INC" ELSE "OP_DEC"),
             err |-> ""]
  ELSE [pos |-> pos + 1, tok |-> Token(IF sign = "+" THEN "OP_ADD" ELSE "OP_SUB"),
        err |-> ""]

\* The branch of nextToken for a word
wordToken(src, pos) ==
  LET word == parseAlpha(src, pos, "")
  IN  IF word.alpha \in {"out", "in"}
      THEN [pos |-> skipSpaces(src, word.pos), tok |-> Token(Keywords[word.alpha]),
            err |-> ""]
      ELSE IF word.alpha \in DOMAIN Keywords
           THEN [pos |-> word.pos, tok |-> Token(Keywords[word.alpha]), err |-> ""]
      ELSE IF word.alpha \in {"true", "false"}
           THEN [pos |-> word.pos, tok |-> Literal(Bool(word.alpha = "true")), err |-> ""]
      ELSE IF word.alpha = "null"
           THEN [pos |-> word.pos, tok |-> Literal(Unit), err |-> ""]
      ELSE [pos |-> word.pos, tok |-> Ident(word.alpha), err |-> ""]

\* lexer.nextToken(): the lexer after the call; err is the diagnostic thrown
RECURSIVE nextToken(_, _)
nextToken(src, lexer) ==
  LET pos == skipSpaces(src, lexer.pos)
      ch == current(src, pos)
      number == parseNumber(src, pos)
      string == parseString(src, pos + 1, ch, <<>>)
  IN  IF ch = NUL THEN [pos |-> pos, tok |-> Token("EOF"), err |-> ""]
      ELSE IF isdigit(ch)
           THEN [pos |-> number.pos,
                 tok |-> IF number.err = "" THEN Literal(number.value) ELSE lexer.tok,
                 err |-> number.err]
      ELSE IF isalpha(ch) THEN wordToken(src, pos)
      ELSE IF ch \in {"\"", "'"}
           THEN [pos |-> string.pos,
                 tok |-> IF string.err = "" THEN Literal(Str(string.s)) ELSE lexer.tok,
                 err |-> string.err]
      ELSE IF ch \in {"+", "-"} THEN signToken(src, pos, lexer.tok, ch)
      ELSE IF ch \in DOMAIN Single
           THEN [pos |-> pos + 1, tok |-> Token(Single[ch]), err |-> ""]
      ELSE IF ch \in DOMAIN Double
           THEN IF current(src, pos + 1) = Double[ch].then
                THEN [pos |-> pos + 2, tok |-> Token(Double[ch].two), err |-> ""]
                ELSE [pos |-> pos + 1, tok |-> Token(Double[ch].one), err |-> ""]
      ELSE IF ch = "#"
           THEN nextToken(src, [lexer EXCEPT !.pos = skipComment(src, pos)])
      ELSE [pos |-> pos, tok |-> lexer.tok, err |-> "Lexer: Unknown token"]

(***************************************************************************)
(* Parser (parser.ts).  The parser's state p is its Lexer and err, the     *)
(* diagnostic that was thrown ("" while none was); a function of the       *)
(* parser returns the state it leaves and the node it built.  Once err is  *)
(* set every function returns at once, as the exception unwinds the calls. *)
(* The loop over a function's parameters has no exit when the text has     *)
(* ended: nextToken leaves the token EOF and the position where they are   *)
(* (lexer.ts:127-131), so the parser's state repeats; the model records    *)
(* this as the outcome NeverReturns.  The lexer of lexer.ts has no token   *)
(* EVAL, so the case EVAL of Parser.expr is never taken.  Parser.expr is   *)
(* the operator expression.  The methods ctrl, stmt, expr and factor call  *)
(* each other, and the lexer, through the operators thisCtrl, thisStmt,    *)
(* thisExpr, thisFactor and lexerNextToken.                                *)
(***************************************************************************)
NeverReturns == "never returns"

NewParser == [lexer |-> NewLexer, err |-> ""]

\* this.lexer.currentToken()
currentToken(p) == p.lexer.tok

\* this.lexer.nextToken() called by the parser
advance(src, p) ==
  IF p.err # "" THEN p
  ELSE LET lexer == nextToken(src, p.lexer)
       IN  [lexer |-> [lexer EXCEPT !.err = ""], err |-> lexer.err]

Parsed(p, node) == [p |-> p, node |-> node]

\* return err("Parser", msg)
Throw(p, msg) ==
  [p |-> IF p.err # "" THEN p ELSE [p EXCEPT !.err = msg], node |-> NoNode]

\* The operators of the four loops logical, comparison, additive and term
LevelOps ==
  << {"LOG_AND", "LOG_OR", "LOG_NOT", "LOG_XOR"},
     {"COMP_EQ", "COMP_NE", "COMP_LT", "COMP_LE", "COMP_GT", "COMP_GE",
      "COMP_AND", "COMP_OR"},
     {"OP_ADD", "OP_SUB"},
     {"OP_MUL", "OP_DIV"} >>

RECURSIVE method(_, _, _)

\* this.ctrl(), this.stmt(), this.expr(), this.factor() and
\* this.lexer.nextToken() as one method of the parser calls them
thisCtrl(src, p) == method("ctrl", src, p)

thisStmt(src, p) == method("stmt", src, p)

thisExpr(src, p) == method("expr", src, p)

thisFactor(src, p) == method("factor", src, p)

lexerNextToken(src, p) == method("nextToken", src, p).p

RECURSIVE operand(_, _, _)
RECURSIVE binary(_, _, _)
RECURSIVE blockLoop(_, _, _)
RECURSIVE argsLoop(_, _, _)

\* while (currentToken().type !== RPAREN) { push an IDENT; nextToken() }
RECURSIVE paramsLoop(_, _, _)
paramsLoop(src, p, params) ==
  IF p.err # "" THEN Parsed(p, params)
  ELSE IF currentToken(p).type = "RPAREN" THEN Parsed(p, params)
  ELSE IF currentToken(p).type = "EOF" THEN Parsed([p EXCEPT !.err = NeverReturns], params)
  ELSE paramsLoop(src, lexerNextToken(src, p),
                  IF currentToken(p).type = "IDENT"
                  THEN Append(params, currentToken(p).name) ELSE params)

ctrl(src, p) ==
  IF p.err # "" THEN Parsed(p, NoNode)
  ELSE IF currentToken(p).type = "IF"
       THEN LET cond == thisExpr(src, lexerNextToken(src, p))
                then == thisStmt(src, cond.p)
                else == thisStmt(src, lexerNextToken(src, then.p))
            IN  IF then.p.err = "" /\ currentToken(then.p).type = "ELSE"
                THEN Parsed(else.p, IfElse(cond.node, then.node, else.node))
                ELSE Parsed(then.p, If(cond.node, then.node))
  ELSE IF currentToken(p).type = "WHILE"
       THEN LET cond == thisExpr(src, lexerNextToken(src, p))
                loop == thisStmt(src, cond.p)
            IN  Parsed(loop.p, While(cond.node, loop.node))
  ELSE IF currentToken(p).type = "FUNC_DECL"
       THEN LET p1 == lexerNextToken(src, p)
                p2 == lexerNextToken(src, p1)
                params == paramsLoop(src, p2, <<>>)
                block == thisStmt(src, lexerNextToken(src, params.p))
            IN  IF p2.err = "" /\ currentToken(p2).type # "LPAREN"
                THEN Throw(p2, "Parser: Expected '('")
                ELSE Parsed(block.p,
                            FuncDecl(currentToken(p1).name, params.node, block.node))
  ELSE thisStmt(src, p)

\* while (currentToken().type !== RBRACE) { EOF throws; push ctrl() }
blockLoop(src, p, expressions) ==
  IF p.err # "" THEN Parsed(p, expressions)
  ELSE IF currentToken(p).type = "RBRACE" THEN Parsed(p, expressions)
  ELSE IF currentToken(p).type = "EOF" THEN Throw(p, "Parser: Expected '}'")
  ELSE LET e == thisCtrl(src, p)
       IN  blockLoop(src, e.p, Append(expressions, e.node))

stmt(src, p) ==
  IF p.err # "" THEN Parsed(p, NoNode)
  ELSE IF currentToken(p).type = "LBRACE"
       THEN LET block == blockLoop(src, lexerNextToken(src, p), <<>>)
            IN  Parsed(lexerNextToken(src, block.p), Stmt(block.node))
  ELSE IF currentToken(p).type \in {"IF", "WHILE", "FUNC_DECL"} THEN thisCtrl(src, p)
  ELSE thisExpr(src, p)

expression(src, p) ==
  IF p.err # "" THEN Parsed(p, NoNode)
  ELSE CASE currentToken(p).type = "EXIT" ->
              LET status == thisExpr(src, lexerNextToken(src, p))
              IN  Parsed(lexerNextToken(src, status.p), Exit(status.node))
         [] currentToken(p).type = "GOTO" ->
              LET p1 == lexerNextToken(src, p)
              IN  Parsed(lexerNextToken(src, lexerNextToken(src, p1)), Goto(currentToken(p1).name))
         [] currentToken(p).type = "VAR_DECL" ->
              LET p1 == lexerNextToken(src, p)
                  p2 == lexerNextToken(src, p1)
                  value == thisExpr(src, lexerNextToken(src, p2))
              IN  IF p2.err = "" /\ currentToken(p2).type # "OP_EQ"
                  THEN Throw(p2, "Parser: Expected '='")
                  ELSE Parsed(value.p, VarDecl(currentToken(p1).name, value.node))
         [] currentToken(p).type = "OUT" ->
              LET value == thisExpr(src, lexerNextToken(src, p))
              IN  Parsed(value.p, Out(value.node))
         [] currentToken(p).type = "IN" ->
              LET p1 == lexerNextToken(src, p)
              IN  Parsed(p1, In(currentToken(p1).name))
         [] currentToken(p).type = "RETURN" ->
              LET value == thisExpr(src, lexerNextToken(src, p))
              IN  Parsed(value.p, Return(value.node))
         [] currentToken(p).type \in {"IF", "WHILE", "LBRACE"} -> thisCtrl(src, p)
         [] OTHER -> binary(1, src, operand(1, src, p))

\* The operand of a loop: comparison() for logical, ..., factor() for term
operand(level, src, p) ==
  IF level = Len(LevelOps) THEN thisFactor(src, p)
  ELSE binary(level + 1, src, operand(level + 1, src, p))

\* while (the token is an operator of the level) left = BinOp(op, left, right)
binary(level, src, left) ==
  IF left.p.err = "" /\ currentToken(left.p).type \in LevelOps[level]
  THEN LET right == operand(level, src, lexerNextToken(src, left.p))
       IN  binary(level, src,
                  Parsed(right.p, BinOp(currentToken(left.p).type, left.node, right.node)))
  ELSE left

logical(src, p) == binary(1, src, operand(1, src, p))

\* while (currentToken().type !== RPAREN) args.push(expression())
argsLoop(src, p, args) ==
  IF p.err # "" THEN Parsed(p, args)
  ELSE IF currentToken(p).type = "RPAREN" THEN Parsed(p, args)
  ELSE LET e == thisExpr(src, p)
       IN  argsLoop(src, e.p, Append(args, e.node))

factor(src, p) ==
  LET typ == currentToken(p).type
      name == currentToken(p).name
      p1 == lexerNextToken(src, p)
      args == argsLoop(src, lexerNextToken(src, p1), <<>>)
      value == thisExpr(src, lexerNextToken(src, p1))
      argument == thisFactor(src, p1)
      inner == thisExpr(src, p1)
  IN  IF p.err # "" THEN Parsed(p, NoNode)
      ELSE IF typ = "LITERAL" THEN Parsed(p1, Val(currentToken(p).value))
      ELSE IF typ = "IDENT"
           THEN IF p1.err # "" THEN Parsed(p1, NoNode)
                ELSE CASE currentToken(p1).type = "COLON" ->
                            Parsed(lexerNextToken(src, p1), Label(name))
                       [] currentToken(p1).type \in {"OP_INC", "OP_DEC"} ->
                            Parsed(lexerNextToken(src, p1),
                                   UnaryOp(currentToken(p1).type, Var(name)))
                       [] currentToken(p1).type = "LPAREN" ->
                            Parsed(lexerNextToken(src, args.p), FuncCall(name, args.node))
                       [] currentToken(p1).type = "OP_EQ" ->
                            Parsed(value.p, VarMod(name, value.node))
                       [] OTHER -> Parsed(p1, Var(name))
      ELSE IF typ \in {"OP_POS", "OP_NEG", "LOG_NOT"}
           THEN Parsed(argument.p, UnaryOp(typ, argument.node))
      ELSE IF typ = "LPAREN"
           THEN IF inner.p.err = "" /\ currentToken(inner.p).type # "RPAREN"
                THEN Throw(inner.p, "Parser: Expected: ')'")
                ELSE Parsed(lexerNextToken(src, inner.p), inner.node)
      ELSE Throw(p, "Parser: Unexpected token")

\* The method a call runs
method(name, src, p) ==
  CASE name = "ctrl" -> ctrl(src, p)
    [] name = "stmt" -> stmt(src, p)
    [] name = "expr" -> expression(src, p)
    [] name = "factor" -> factor(src, p)
    [] name = "nextToken" -> Parsed(advance(src, p), NoNode)

\* while (currentToken().type != EOF) expressions.push(ctrl())
RECURSIVE parseLoop(_, _, _)
parseLoop(src, p, expressions) ==
  IF p.err # "" THEN Parsed(p, expressions)
  ELSE IF currentToken(p).type = "EOF" THEN Parsed(p, expressions)
  ELSE LET e == thisCtrl(src, p)
       IN  parseLoop(src, e.p, Append(expressions, e.node))

\* new Parser(new Lexer(src)).parse(): the Program, or the diagnostic thrown,
\* or NeverReturns
parse(src) ==
  LET end == parseLoop(src, lexerNextToken(src, NewParser), <<>>)
  IN  [err |-> end.p.err, lexer |-> end.p.lexer,
       program |-> IF end.p.err = "" THEN Program(end.node) ELSE NoNode]

(***************************************************************************)
(* Opcodes (bytecode.ts, enum Op).  The enum assigns consecutive numbers   *)
(* in declaration order; tests fix LOAD_CONST = 0, OUT = 21 and HALT = 30. *)
(***************************************************************************)
OpNames ==
  << "LOAD_CONST", "LOAD_VAR", "STORE_VAR", "ADD", "SUB", "MUL", "DIV", "NEG",
     "POS", "INC", "DEC", "LOG_NOT", "LOG_AND", "LOG_OR", "LOG_XOR", "EQ",
     "NE", "GT", "GE", "LT", "LE", "OUT", "IN", "POP", "JUMP",
     "JUMP_IF_FALSE", "CALL", "RET", "EXIT", "EVAL", "HALT" >>

Op(name) == (CHOOSE i \in 1..Len(OpNames) : OpNames[i] = name) - 1

\* The mnemonic of a code byte, "?" for a byte that is no opcode.
OpName(byte) == IF byte + 1 \in 1..Len(OpNames) THEN OpNames[byte + 1] ELSE "?"

(***************************************************************************)
(* Compiler (bytecode/compiler.ts).  The compiler's fields are the record  *)
(* c; err() throws, which the model keeps as a non-empty c.err that stops  *)
(* every later step.  Code addresses are 0-based as in the source.  The    *)
(* field dbg is debug information the compiler of the model keeps beside   *)
(* the code and that no emitted byte depends on: the address at which each *)
(* top-level node starts (marks), the declaration each LOAD_VAR reads and  *)
(* each STORE_VAR or IN writes (loads, stores), the declarations that are  *)
(* the parameters of the function at an address (params), and the function *)
(* whose body holds a declaration (owner, -1 at top level); whether a      *)
(* VarDecl named a variable its own scope already had (redecl), the        *)
(* largest nextSlot there was (high), the operator of each BinOp compiled  *)
(* with the opcodes emitted after its operands (binops), the addresses     *)
(* labels stand for (labelAddrs, and by name labelAt), the address of each *)
(* Val's LOAD_CONST with the index its literal has in the constants        *)
(* (vals), which bytes of the code are opcodes (opAt, parallel to codes),  *)
(* and the address each JUMP, JUMP_IF_FALSE and CALL is meant to continue  *)
(* at (jumps), the nextSlot with which each scope of the stack was entered *)
(* (entries), and the scope stack with nextSlot after every enterScope,    *)
(* exitScope and declVar (points).                                         *)
(***************************************************************************)
EmptyMap == [x \in {} |-> 0]

MapSet(m, k, v) == [x \in DOMAIN m \cup {k} |-> IF x = k THEN v ELSE m[x]]

High(addr) == (addr \div 256) % 256

Low(addr) == addr % 256

\* Compiler's initial fields
NewCompiler ==
  [constants |-> <<>>, codes |-> <<>>,
   scopes |-> <<[vars |-> EmptyMap, slotCount |-> 0]>>, nextSlot |-> 0,
   funcs |-> <<EmptyMap>>, labels |-> EmptyMap, err |-> "",
   dbg |-> [marks |-> <<>>, loads |-> EmptyMap, stores |-> EmptyMap,
            params |-> EmptyMap, owner |-> <<>>, ids |-> <<EmptyMap>>,
            curFn |-> -1, redecl |-> FALSE, high |-> 0, binops |-> <<>>,
            labelAddrs |-> {}, vals |-> {}, opAt |-> <<>>, jumps |-> <<>>,
            labelAt |-> EmptyMap, entries |-> <<0>>, points |-> <<>>]]

\* The operand bytes the GVM's handler of an opcode reads after it
operandBytes(name) ==
  CASE name \in {"LOAD_CONST", "LOAD_VAR", "STORE_VAR"} -> 1
    [] name \in {"JUMP", "JUMP_IF_FALSE"} -> 2
    [] name = "CALL" -> 3
    [] OTHER -> 0

\* Debug information: which of the bytes of whole instructions are opcodes
RECURSIVE opStarts(_)
opStarts(bytes) ==
  IF bytes = <<>> THEN <<>>
  ELSE LET w == operandBytes(OpName(bytes[1]))
       IN  <<TRUE>> \o [i \in 1..w |-> FALSE]
                   \o opStarts(SubSeq(bytes, w + 2, Len(bytes)))

emit(c, bytes) == [c EXCEPT !.codes = @ \o bytes, !.dbg.opAt = @ \o opStarts(bytes)]

err(c, msg) == [c EXCEPT !.err = msg]

\* Debug information: the scope stack and nextSlot as enterScope, exitScope
\* or declVar leaves them; after exitScope also the nextSlot with which the
\* scope was entered (entry), otherwise entry is -1
notePoint(c, entry) ==
  [c EXCEPT !.dbg.points =
     Append(@, [scopes |-> c.scopes, nextSlot |-> c.nextSlot, entry |-> entry])]

enterScope(c) ==
  notePoint([c EXCEPT !.scopes = Append(@, [vars |-> EmptyMap, slotCount |-> 0]),
                      !.funcs = Append(@, EmptyMap),
                      !.dbg.ids = Append(@, EmptyMap),
                      !.dbg.entries = Append(@, c.nextSlot)],
            -1)

\* exitScope leaving nextSlot as it is
exitScopeKeepSlots(c) ==
  notePoint([c EXCEPT !.scopes = SubSeq(@, 1, Len(@) - 1),
                      !.funcs = SubSeq(@, 1, Len(@) - 1),
                      !.dbg.ids = SubSeq(@, 1, Len(@) - 1),
                      !.dbg.entries = SubSeq(@, 1, Len(@) - 1)],
            c.dbg.entries[Len(c.dbg.entries)])

exitScope(c) ==
  notePoint([c EXCEPT !.nextSlot = @ - c.scopes[Len(c.scopes)].slotCount,
                      !.scopes = SubSeq(@, 1, Len(@) - 1),
                      !.funcs = SubSeq(@, 1, Len(@) - 1),
                      !.dbg.ids = SubSeq(@, 1, Len(@) - 1),
                      !.dbg.entries = SubSeq(@, 1, Len(@) - 1)],
            c.dbg.entries[Len(c.dbg.entries)])

\* The slot of `name` in the innermost scope that has it, -1 for null.
loadVar(c, name) ==
  LET hits == {i \in 1..Len(c.scopes) : name \in DOMAIN c.scopes[i].vars}
  IN  IF hits = {} THEN -1
      ELSE c.scopes[CHOOSE i \in hits : \A j \in hits : j <= i].vars[name]

HasFunc(c, name) == \E i \in 1..Len(c.funcs) : name \in DOMAIN c.funcs[i]

\* loadFunc searching the function tables from the outermost scope
loadFuncOutermost(c, name) ==
  LET hits == {i \in 1..Len(c.funcs) : name \in DOMAIN c.funcs[i]}
  IN  c.funcs[CHOOSE i \in hits : \A j \in hits : i <= j][name]

\* The entry of `name` in the innermost function table that has it.
loadFunc(c, name) ==
  LET hits == {i \in 1..Len(c.funcs) : name \in DOMAIN c.funcs[i]}
  IN  c.funcs[CHOOSE i \in hits : \A j \in hits : j <= i][name]

\* The slot declVar hands out
declSlot(c) == c.nextSlot

declVar(c, name) ==
  notePoint([c EXCEPT !.nextSlot = @ + 1,
                      !.scopes[Len(c.scopes)] =
                        [vars |-> MapSet(@.vars, name, declSlot(c)),
                         slotCount |-> @.slotCount + 1],
                      !.dbg.ids[Len(c.scopes)] = MapSet(@, name, Len(c.dbg.owner) + 1),
                      !.dbg.owner = Append(@, c.dbg.curFn),
                      !.dbg.high = IF c.nextSlot + 1 > @ THEN c.nextSlot + 1 ELSE @],
            -1)

\* Debug information: the declaration `name` resolves to, as loadVar resolves
loadDecl(c, name) ==
  LET hits == {i \in 1..Len(c.dbg.ids) : name \in DOMAIN c.dbg.ids[i]}
  IN  c.dbg.ids[CHOOSE i \in hits : \A j \in hits : j <= i][name]

\* Debug information: the next instruction emitted reads `name`
noteLoad(c, name) ==
  [c EXCEPT !.dbg.loads = MapSet(@, Len(c.codes), loadDecl(c, name))]

\* Debug information: the instruction emitted `offset` bytes on writes `name`
noteStore(c, name, offset) ==
  [c EXCEPT !.dbg.stores = MapSet(@, Len(c.codes) + offset, loadDecl(c, name))]

\* Debug information: the function at funcAddr has these parameters
noteParams(c, funcAddr, params) ==
  [c EXCEPT !.dbg.params =
     MapSet(@, funcAddr, [i \in 1..Len(params) |-> loadDecl(c, params[i])])]

\* Debug information: the function whose body is being compiled
noteFunc(c, funcAddr) == [c EXCEPT !.dbg.curFn = funcAddr]

\* Debug information: a VarDecl names `name`; is it in the innermost scope?
noteDecl(c, name) ==
  [c EXCEPT !.dbg.redecl = @ \/ name \in DOMAIN c.scopes[Len(c.scopes)].vars]

\* Debug information: a BinOp was compiled, `opcodes` emitted after its operands
noteBinOp(c, op, opcodes) ==
  [c EXCEPT !.dbg.binops = Append(@, [op |-> op, opcodes |-> opcodes])]

\* Debug information: a label stands for the next address
noteLabel(c, name) ==
  [c EXCEPT !.dbg.labelAddrs = @ \cup {Len(c.codes)},
            !.dbg.labelAt = MapSet(@, name, Len(c.codes))]

\* Debug information: the JUMP, JUMP_IF_FALSE or CALL at address `at` is
\* meant to continue at address `to`
noteJump(c, at, to) == [c EXCEPT !.dbg.jumps = Append(@, [at |-> at, to |-> to])]

\* Debug information: the LOAD_CONST of a Val starts at the next address and
\* its literal gets the next index of the constants
noteVal(c) ==
  [c EXCEPT !.dbg.vals = @ \cup {[addr |-> Len(c.codes), idx |-> Len(c.constants)]}]

\* Debug information: a top-level node, or the final HALT, starts here
noteMark(c) == [c EXCEPT !.dbg.marks = Append(@, Len(c.codes))]

RECURSIVE declParams(_, _)
declParams(c, params) ==
  IF params = <<>> THEN c ELSE declParams(declVar(c, Head(params)), Tail(params))

patchJumpAddr(c, pos, addr) ==
  [c EXCEPT !.codes[pos + 1] = High(addr), !.codes[pos + 2] = Low(addr)]

\* The opcode a BinOp's operator lowers to, "" where the switch has no case
BinOpcode(op) ==
  CASE op = "OP_ADD" -> "ADD"
    [] op = "OP_SUB" -> "SUB"
    [] op = "OP_MUL" -> "MUL"
    [] op = "OP_DIV" -> "DIV"
    [] op = "COMP_EQ" -> "EQ"
    [] op = "COMP_NE" -> "NE"
    [] op = "COMP_GT" -> "GT"
    [] op = "COMP_GE" -> "GE"
    [] op = "COMP_LT" -> "LT"
    [] op = "COMP_LE" -> "LE"
    [] OTHER -> ""

\* VarDecl and VarMod: the code that follows the value
storeCode(slot) == <<Op("STORE_VAR"), slot, Op("POP")>>

\* x++ / x--: the code that follows the compiled argument
incDecCode(op, slot) ==
  <<Op("LOAD_VAR"), slot, Op(IF op = "OP_INC" THEN "INC" ELSE "DEC"),
    Op("STORE_VAR"), slot>>

\* Stmt: the code between two children of the block
stmtSeparator == <<Op("POP")>>

\* FuncCall: the CALL instruction for a resolved function
callCode(func) == <<Op("CALL"), High(func.addr), Low(func.addr), func.paramCount>>

RECURSIVE compileExpr(_, _)
RECURSIVE compileStmtBody(_, _, _)
RECURSIVE compileArgs(_, _, _)

\* Stmt: every child but the last is followed by POP
compileStmtBody(c, body, i) ==
  IF c.err # "" THEN c
  ELSE IF i < Len(body)
       THEN compileStmtBody(emit(compileExpr(c, body[i]), stmtSeparator), body, i + 1)
       ELSE compileExpr(c, body[i])

compileArgs(c, args, i) ==
  IF c.err # "" \/ i > Len(args) THEN c
  ELSE compileArgs(compileExpr(c, args[i]), args, i + 1)

compileExpr(c, expr) ==
  IF c.err # "" THEN c
  ELSE CASE expr.type = "Val" ->
         LET c1 == [noteVal(c) EXCEPT !.constants = Append(@, expr.value)]
         IN  emit(c1, <<Op("LOAD_CONST"), Len(c1.constants) - 1>>)
    [] expr.type = "Var" ->
         IF loadVar(c, expr.name) = -1
         THEN err(c, "Compiler: Variable has not been defined")
         ELSE emit(noteLoad(c, expr.name), <<Op("LOAD_VAR"), loadVar(c, expr.name)>>)
    [] expr.type = "VarDecl" ->
         LET c1 == compileExpr(c, expr.value)
         IN  IF c1.err # "" THEN c1
             ELSE emit(noteStore(declVar(noteDecl(c1, expr.name), expr.name),
                                 expr.name, 0),
                       storeCode(declSlot(c1)))
    [] expr.type = "VarMod" ->
         LET c1 == compileExpr(c, expr.value)
         IN  IF c1.err # "" THEN c1
             ELSE IF loadVar(c1, expr.name) = -1
                  THEN err(c1, "Compiler: Variable has not been defined")
                  ELSE emit(noteStore(c1, expr.name, 0),
                            storeCode(loadVar(c1, expr.name)))
    [] expr.type = "BinOp" ->
         LET c2 == compileExpr(compileExpr(c, expr.left), expr.right)
         IN  IF c2.err # "" THEN c2
             ELSE IF BinOpcode(expr.op) = "" THEN noteBinOp(c2, expr.op, <<>>)
             ELSE emit(noteBinOp(c2, expr.op, <<BinOpcode(expr.op)>>),
                       <<Op(BinOpcode(expr.op))>>)
    [] expr.type = "UnaryOp" ->
         LET c1 == compileExpr(c, expr.argument)
         IN  IF c1.err # "" THEN c1
             ELSE IF expr.op \in {"OP_INC", "OP_DEC"} /\ expr.argument.type = "Var"
                  THEN emit(noteStore(noteLoad(c1, expr.argument.name),
                                      expr.argument.name, 3),
                            incDecCode(expr.op, loadVar(c1, expr.argument.name)))
                  ELSE IF expr.op = "LOG_NOT" THEN emit(c1, <<Op("LOG_NOT")>>)
                  ELSE IF expr.op = "OP_NEG" THEN emit(c1, <<Op("NEG")>>)
                  ELSE emit(c1, <<Op("POS")>>)
    [] expr.type = "Out" -> 
         LET c1 == compileExpr(c, expr.value)
         IN  IF c1.err # "" THEN c1 ELSE emit(c1, <<Op("OUT")>>)
    [] expr.type = "In" ->
         emit(noteStore(declVar(c, expr.name), expr.name, 0), <<Op("IN"), declSlot(c)>>)
    [] expr.type = "Stmt" ->
         LET c1 == enterScope(c)
             c2 == IF Len(expr.body) > 0 THEN compileStmtBody(c1, expr.body, 1)
                   ELSE emit([c1 EXCEPT !.constants = Append(@, Unit)],
                             <<Op("LOAD_CONST"), Len(c1.constants)>>)
         IN  IF c2.err # "" THEN c2 ELSE exitScope(c2)
    [] expr.type = "If" ->
         LET c1 == compileExpr(c, expr.cond)
             thenPos == Len(c1.codes)
             c2 == compileExpr(enterScope(emit(c1, <<Op("JUMP_IF_FALSE"), 0, 0>>)),
                               expr.body)
             c3 == exitScope(c2)
             elsePos == Len(c3.codes)
             c4 == IF expr.else.type # "None" THEN emit(c3, <<Op("JUMP"), 0, 0>>)
                   ELSE c3
             c5 == noteJump(patchJumpAddr(c4, thenPos + 1, Len(c4.codes)),
                            thenPos, Len(c4.codes))
             c6 == compileExpr(enterScope(c5), expr.else)
             c7 == exitScope(c6)
         IN  IF c1.err # "" THEN c1
             ELSE IF c2.err # "" THEN c2
             ELSE IF expr.else.type = "None" THEN c5
             ELSE IF c6.err # "" THEN c6
             ELSE noteJump(patchJumpAddr(c7, elsePos + 1, Len(c7.codes)),
                           elsePos, Len(c7.codes))
    [] expr.type = "While" ->
         LET c0 == enterScope(c)
             loopPos == Len(c0.codes)
             c1 == compileExpr(c0, expr.cond)
             jumpIfFalse == Len(c1.codes)
             c2 == compileExpr(emit(c1, <<Op("JUMP_IF_FALSE"), 0, 0>>), expr.body)
             c3 == emit(noteJump(c2, Len(c2.codes), loopPos),
                        <<Op("JUMP"), High(loopPos), Low(loopPos)>>)
         IN  IF c1.err # "" THEN c1
             ELSE IF c2.err # "" THEN c2
             ELSE exitScope(noteJump(patchJumpAddr(c3, jumpIfFalse + 1, Len(c3.codes)),
                                     jumpIfFalse, Len(c3.codes)))
    [] expr.type = "FuncDecl" ->
         LET jumpAddr == Len(c.codes)
             c1 == emit(c, <<Op("JUMP"), 0, 0>>)
             funcAddr == Len(c1.codes)
             c2 == [c1 EXCEPT !.funcs[Len(c1.funcs)] =
                      MapSet(@, expr.name,
                             [addr |-> funcAddr, paramCount |-> Len(expr.params)])]
             c3 == compileExpr(noteParams(declParams(enterScope(noteFunc(c2, funcAddr)),
                                                     expr.params),
                                          funcAddr, expr.params),
                               expr.body)
             c4 == noteFunc(exitScope(emit(c3, <<Op("RET")>>)), c.dbg.curFn)
         IN  IF expr.name \in DOMAIN c1.funcs[Len(c1.funcs)]
             THEN err(c1, "Compiler: Function has already been declared in this scope")
             ELSE IF c3.err # "" THEN c3
             ELSE noteJump(patchJumpAddr(c4, jumpAddr + 1, Len(c4.codes)),
                           jumpAddr, Len(c4.codes))
    [] expr.type = "FuncCall" ->
         LET c1 == compileArgs(c, expr.args, 1)
         IN  IF c1.err # "" THEN c1
             ELSE IF ~HasFunc(c1, expr.name)
                  THEN err(c1, "Compiler: Function hasn't been declared in this scope")
             ELSE IF loadFunc(c1, expr.name).paramCount # Len(expr.args)
                  THEN err(c1, "Compiler: wrong number of arguments")
             ELSE emit(noteJump(c1, Len(c1.codes), loadFunc(c1, expr.name).addr),
                       callCode(loadFunc(c1, expr.name)))
    [] expr.type = "Exit" ->
         LET c1 == compileExpr(c, expr.status)
         IN  IF c1.err # "" THEN c1 ELSE emit(c1, <<Op("EXIT")>>)
    [] expr.type = "Eval" ->
         LET c1 == compileExpr(c, expr.code)
         IN  IF c1.err # "" THEN c1 ELSE emit(c1, <<Op("EVAL")>>)
    [] expr.type = "Return" ->
         IF expr.value.type # "None"
         THEN LET c1 == compileExpr(c, expr.value)
              IN  IF c1.err # "" THEN c1 ELSE emit(c1, <<Op("RET")>>)
         ELSE emit([c EXCEPT !.constants = Append(@, Unit)],
                   <<Op("LOAD_CONST"), Len(c.constants), Op("RET")>>)
    [] expr.type = "Label" ->
         [noteLabel(c, expr.name) EXCEPT !.labels = MapSet(@, expr.name,
                                     [high |-> High(Len(c.codes)),
                                      low |-> Low(Len(c.codes))])]
    [] expr.type = "Goto" ->
         IF expr.name \notin DOMAIN c.labels
         THEN err(c, "Compiler: Label not found")
         ELSE emit(noteJump(c, Len(c.codes), c.dbg.labelAt[expr.name]),
                   <<Op("JUMP"), c.labels[expr.name].high, c.labels[expr.name].low>>)
    [] OTHER -> err(c, "Compiler: Unknown node type")

RECURSIVE compileBody(_, _, _)
compileBody(c, body, i) ==
  IF c.err # "" \/ i > Len(body) THEN c
  ELSE compileBody(compileExpr(noteMark(c), body[i]), body, i + 1)

\* The bytes new Uint8Array(codes) holds
Uint8Array(codes) == [i \in 1..Len(codes) |-> codes[i] % 256]

\* Compiler.compile: the chunk and maxSlot, or the diagnostic thrown
compile(program) ==
  LET c == compileBody(NewCompiler, program.body, 1)
      d == emit(c, <<Op("HALT")>>)
  IN  IF c.err # "" THEN [err |-> c.err, code |-> <<>>, constants |-> <<>>, maxSlot |-> 0]
      ELSE [err |-> "", code |-> Uint8Array(d.codes), constants |-> d.constants,
            maxSlot |-> d.nextSlot]

\* The debug information of a program that compiles
debugInfo(program) ==
  emit(noteMark(compileBody(NewCompiler, program.body, 1)), <<Op("HALT")>>).dbg


(***************************************************************************)
(* Programs the model runs: the scenarios of the specification and of the  *)
(* README, with loop counts and arguments scaled down, and small programs  *)
(* around them.  Each is the AST Parser.parse builds from the source text  *)
(* in its comment.                                                         *)
(***************************************************************************)
N(k) == Val(Num(k))

\* let x = (1 + 2) * 3  out x
ProgArith ==
  Program(<< VarDecl("x", BinOp("OP_MUL", BinOp("OP_ADD", N(1), N(2)), N(3))),
             Out(Var("x")) >>)

\* let n = 2  while (n > 0) { out n  n-- }
ProgWhile ==
  Program(<< VarDecl("n", N(2)),
             While(BinOp("COMP_GT", Var("n"), N(0)),
                   Stmt(<< Out(Var("n")), UnaryOp("OP_DEC", Var("n")) >>)) >>)

\* fun f(x) { if (x <= 1) return x else { let a = 0 let b = 1
\*   while (x > 1) { let tmp = a + b  a = b  b = tmp  x-- } return b } }
\* out f(3)
ProgIterFib ==
  Program(<< FuncDecl("f", <<"x">>,
               Stmt(<< IfElse(BinOp("COMP_LE", Var("x"), N(1)),
                              Return(Var("x")),
                              Stmt(<< VarDecl("a", N(0)),
                                      VarDecl("b", N(1)),
                                      While(BinOp("COMP_GT", Var("x"), N(1)),
                                            Stmt(<< VarDecl("tmp", BinOp("OP_ADD", Var("a"), Var("b"))),
                                                    VarMod("a", Var("b")),
                                                    VarMod("b", Var("tmp")),
                                                    UnaryOp("OP_DEC", Var("x")) >>)),
                                      Return(Var("b")) >>)) >>)),
             Out(FuncCall("f", <<N(3)>>)) >>)

\* fun fib(n a b) { if n == 0 return a  return fib(n - 1 b a + b) }
\* out fib(2 0 1)
ProgTailFib ==
  Program(<< FuncDecl("fib", <<"n", "a", "b">>,
               Stmt(<< If(BinOp("COMP_EQ", Var("n"), N(0)), Return(Var("a"))),
                       Return(FuncCall("fib", << BinOp("OP_SUB", Var("n"), N(1)),
                                                 Var("b"),
                                                 BinOp("OP_ADD", Var("a"), Var("b")) >>)) >>)),
             Out(FuncCall("fib", <<N(2), N(0), N(1)>>)) >>)

\* let x = { let a = 1  let b = 2  a + b }  out x
ProgBlock ==
  Program(<< VarDecl("x", Stmt(<< VarDecl("a", N(1)), VarDecl("b", N(2)),
                                  BinOp("OP_ADD", Var("a"), Var("b")) >>)),
             Out(Var("x")) >>)

\* let g = 5  fun f(x) { return x }  out f(7)
ProgGlobalThenParam ==
  Program(<< VarDecl("g", N(5)),
             FuncDecl("f", <<"x">>, Stmt(<< Return(Var("x")) >>)),
             Out(FuncCall("f", <<N(7)>>)) >>)

\* let g = 5  fun h() { return g }  out h()
ProgOuterVar ==
  Program(<< VarDecl("g", N(5)),
             FuncDecl("h", <<>>, Stmt(<< Return(Var("g")) >>)),
             Out(FuncCall("h", <<>>)) >>)

\* let x = 1  { let x = 2  out x }  out x
ProgShadow ==
  Program(<< VarDecl("x", N(1)),
             Stmt(<< VarDecl("x", N(2)), Out(Var("x")) >>),
             Out(Var("x")) >>)

\* fun u() {}  7  out { u() }
ProgUnitCall ==
  Program(<< FuncDecl("u", <<>>, Stmt(<<>>)),
             N(7),
             Out(Stmt(<< FuncCall("u", <<>>) >>)) >>)

\* out 1 + { let a = 2  a }
ProgBlockOperand ==
  Program(<< Out(BinOp("OP_ADD", N(1), Stmt(<< VarDecl("a", N(2)), Var("a") >>))) >>)

\* fun f(x) { if x == 0 return 1  out 9  return 2 }  out f(0)
ProgEarlyReturn ==
  Program(<< FuncDecl("f", <<"x">>,
               Stmt(<< If(BinOp("COMP_EQ", Var("x"), N(0)), Return(N(1))),
                       Out(N(9)),
                       Return(N(2)) >>)),
             Out(FuncCall("f", <<N(0)>>)) >>)

\* let p = +1  out p
ProgUnaryPlus == Program(<< VarDecl("p", UnaryOp("OP_POS", N(1))), Out(Var("p")) >>)

\* 4  let y = 6 / 2  y = -y  out !(y != 3)  out y >= 1  out y < 0  in s  out s
ProgMixed ==
  Program(<< N(4),
             VarDecl("y", BinOp("OP_DIV", N(6), N(2))),
             VarMod("y", UnaryOp("OP_NEG", Var("y"))),
             Out(UnaryOp("LOG_NOT", BinOp("COMP_NE", Var("y"), N(3)))),
             Out(BinOp("COMP_GE", Var("y"), N(1))),
             Out(BinOp("COMP_LT", Var("y"), N(0))),
             In("s"),
             Out(Var("s")) >>)

\* let c = 0  c++  l:  out if (c == 1) 10 else 20  { }  out c
ProgIfElse ==
  Program(<< VarDecl("c", N(0)),
             UnaryOp("OP_INC", Var("c")),
             Label("l"),
             Out(IfElse(BinOp("COMP_EQ", Var("c"), N(1)), N(10), N(20))),
             Stmt(<<>>),
             Out(Var("c")) >>)

\* let n = 2  label: out n  n--  if n != 0 goto label
ProgGoto ==
  Program(<< VarDecl("n", N(2)),
             Label("label"),
             Out(Var("n")),
             UnaryOp("OP_DEC", Var("n")),
             If(BinOp("COMP_NE", Var("n"), N(0)), Goto("label")) >>)

\* fun g(a b) { out a + b }  let a = 1  g(2 a)
ProgArgOrder ==
  Program(<< FuncDecl("g", <<"a", "b">>,
               Stmt(<< Out(BinOp("OP_ADD", Var("a"), Var("b"))) >>)),
             VarDecl("a", N(1)),
             FuncCall("g", <<N(2), Var("a")>>) >>)

\* out 1  exit 0  out 2
ProgExit == Program(<< Out(N(1)), Exit(N(0)), Out(N(2)) >>)

\* fun u() {}  7  { u() }
ProgUnitBlock ==
  Program(<< FuncDecl("u", <<>>, Stmt(<<>>)),
             N(7),
             Stmt(<< FuncCall("u", <<>>) >>) >>)

\* let v = 1  4  { let a = 1  v = 5  out v  { let c = 2  c }  a + v }  out v
ProgBlockKinds ==
  Program(<< VarDecl("v", N(1)),
             N(4),
             Stmt(<< VarDecl("a", N(1)),
                     VarMod("v", N(5)),
                     Out(Var("v")),
                     Stmt(<< VarDecl("c", N(2)), Var("c") >>),
                     BinOp("OP_ADD", Var("a"), Var("v")) >>),
             Out(Var("v")) >>)

\* let x = 1  let x = 2  out x
ProgRedecl ==
  Program(<< VarDecl("x", N(1)), VarDecl("x", N(2)), Out(Var("x")) >>)

\* out 6 & 3  out 1 || 0
ProgLogical ==
  Program(<< Out(BinOp("LOG_AND", N(6), N(3))),
             Out(BinOp("COMP_OR", N(1), N(0))) >>)

\* fun f() out 1  { fun f() out 2  f() }  f()
ProgFuncShadow ==
  Program(<< FuncDecl("f", <<>>, Out(N(1))),
             Stmt(<< FuncDecl("f", <<>>, Out(N(2))), FuncCall("f", <<>>) >>),
             FuncCall("f", <<>>) >>)

\* fun f() out 1  { f()  { fun f() out 2  f() }  f() }
ProgFuncNested ==
  Program(<< FuncDecl("f", <<>>, Out(N(1))),
             Stmt(<< FuncCall("f", <<>>),
                     Stmt(<< FuncDecl("f", <<>>, Out(N(2))), FuncCall("f", <<>>) >>),
                     FuncCall("f", <<>>) >>) >>)

\* let n = 2  goto label  out 9  label: out n  n--  if n != 0 goto label
ProgForwardGoto ==
  Program(<< VarDecl("n", N(2)),
             Goto("label"),
             Out(N(9)),
             Label("label"),
             Out(Var("n")),
             UnaryOp("OP_DEC", Var("n")),
             If(BinOp("COMP_NE", Var("n"), N(0)), Goto("label")) >>)

\* first: let n = 1  if n == 1 goto done else goto first  out 7  done: out n
ProgIfGoto ==
  Program(<< Label("first"),
             VarDecl("n", N(1)),
             IfElse(BinOp("COMP_EQ", Var("n"), N(1)), Goto("done"), Goto("first")),
             Out(N(7)),
             Label("done"),
             Out(Var("n")) >>)

\* let u = null  let u = 1  out u
ProgUnitVar ==
  Program(<< VarDecl("u", Val(Unit)), VarDecl("u", N(1)), Out(Var("u")) >>)

\* if 0 { { 1 1 ... 1 } ... { 1 1 ... 1 } }  out 7
\* with 16 blocks of 16 literals each in the outer block
ProgManyLiterals ==
  Program(<< If(N(0), Stmt([i \in 1..16 |-> Stmt([j \in 1..16 |-> N(1)])])),
             Out(N(7)) >>)

\* if 0 { { {1 1 ... 1} ... } ... }  out 7
\* with LongBlock blocks of LongBlock blocks of LongBlock literals each: the
\* code of the outer block is longer than 65536 bytes
LongBlock == 28

ProgLongBlock ==
  Program(<< If(N(0), Stmt([i \in 1..LongBlock |->
                        Stmt([j \in 1..LongBlock |->
                          Stmt([k \in 1..LongBlock |-> N(1)])])])),
             Out(N(7)) >>)

\* let a = 1  { let b = 2  out z }
ProgBlockError ==
  Program(<< VarDecl("a", N(1)),
             Stmt(<< VarDecl("b", N(2)), Out(Var("z")) >>) >>)

\* let c = 0  fun f() { c++ }  f()  out c
ProgIncOuter ==
  Program(<< VarDecl("c", N(0)),
             FuncDecl("f", <<>>, Stmt(<< UnaryOp("OP_INC", Var("c")) >>)),
             FuncCall("f", <<>>),
             Out(Var("c")) >>)

Programs ==
  << ProgArith, ProgWhile, ProgIterFib, ProgTailFib, ProgBlock,
     ProgGlobalThenParam, ProgOuterVar, ProgShadow, ProgUnitCall,
     ProgBlockOperand, ProgEarlyReturn, ProgUnaryPlus, ProgMixed, ProgIfElse,
     ProgGoto, ProgArgOrder, ProgExit, ProgUnitBlock, ProgBlockKinds,
     ProgRedecl, ProgLogical, ProgFuncShadow, ProgFuncNested,
     ProgForwardGoto, ProgIfGoto, ProgUnitVar,
     ProgManyLiterals, ProgLongBlock, ProgIncOuter, ProgBlockError >>

JsSub(l, r) == Arith("-", l, r)

JsMul(l, r) == Arith("*", l, r)

JsEq(l, r) == Bool(StrictEq(l, r))

JsNe(l, r) == Bool(~StrictEq(l, r))

JsGt(l, r) == Rel(">", l, r)

JsGe(l, r) == Rel(">=", l, r)

JsLt(l, r) == Rel("<", l, r)

JsLe(l, r) == Rel("<=", l, r)

JsInc(v) == JsAdd(v, Num(1))

JsDec(v) == Arith("-", v, Num(1))

JsNot(v) == Bool(~Truthy(v))

(***************************************************************************)
(* Context (ast-walking/context.ts) and Interpreter (core.ts).  eval is    *)
(* the recursive function of the source, threading the record st: the      *)
(* Context's vars, funcs and labels, the Interpreter's pc, the values      *)
(* written by out, and err, the message of the exception that was thrown   *)
(* ("" while none was).  The fields depth, returned, retVal, lateEval,     *)
(* callSkew and argSkew are history fields: they observe the evaluation    *)
(* and never steer it, except that a call nested deeper than MaxCallDepth  *)
(* ends in the RangeError of an exhausted call stack.                      *)
(***************************************************************************)
MaxCallDepth == 5

NewContext ==
  [vars |-> << MapSet(MapSet(EmptyMap, "gos", Num(0)), "N", Bool(TRUE)) >>,
   funcs |-> << EmptyMap >>, labels |-> EmptyMap]

Res(st, v) == [st |-> st, v |-> v]

ctxEnterScope(st) ==
  [st EXCEPT !.vars = Append(@, EmptyMap), !.funcs = Append(@, EmptyMap)]

ctxExitScope(st) ==
  [st EXCEPT !.vars = SubSeq(@, 1, Len(@) - 1), !.funcs = SubSeq(@, 1, Len(@) - 1)]

Last(S) == CHOOSE i \in S : \A j \in S : j <= i

modifyVar(st, name, value) ==
  LET has == {i \in 1..Len(st.vars) : name \in DOMAIN st.vars[i]}
  IN  IF st.err # "" THEN st
      ELSE IF has = {} THEN err(st, "Context: Variable has not been defined")
      ELSE [st EXCEPT !.vars[Last(has)] = MapSet(@, name, value)]

\* Map.get(name) === undefined: no entry, or an entry holding undefined
Undefined(m, name) == name \notin DOMAIN m \/ m[name] = Unit

setVar(st, name, value) ==
  IF st.err # "" THEN st
  ELSE IF Undefined(st.vars[Len(st.vars)], name)
       THEN [st EXCEPT !.vars[Len(st.vars)] = MapSet(@, name, value)]
       ELSE err(st, "Context: Variable has already been defined")

getVar(st, name) ==
  LET hit == {i \in 1..Len(st.vars) : ~Undefined(st.vars[i], name)}
  IN  IF st.err # "" THEN Res(st, Unit)
      ELSE IF hit = {} THEN Res(err(st, "Context: No variable found"), Unit)
      ELSE Res(st, st.vars[Last(hit)][name])

setLabel(st, name, idx) == [st EXCEPT !.labels = MapSet(@, name, idx)]

setFunc(st, name, val) ==
  IF st.err # "" THEN st
  ELSE IF name \notin DOMAIN st.funcs[Len(st.funcs)]
       THEN [st EXCEPT !.funcs[Len(st.funcs)] = MapSet(@, name, val)]
       ELSE err(st, "Context: Function has already been defined in current scope")

\* The bits of a op b for the operators & | ^ on non-negative integers
RECURSIVE Bits(_, _, _)
Bits(op, a, b) ==
  IF a = 0 /\ b = 0 THEN 0
  ELSE 2 * Bits(op, a \div 2, b \div 2) +
       (CASE op = "LOG_AND" -> (a % 2) * (b % 2)
          [] op = "LOG_OR" -> IF (a % 2) + (b % 2) > 0 THEN 1 ELSE 0
          [] op = "LOG_XOR" -> ((a % 2) + (b % 2)) % 2)

\* ToInt32 of each operand, then the bitwise operator (model values that are
\* negative numbers are left out)
Bitwise(op, l, r) ==
  LET a == IF ToNumber(l).t = "nan" THEN 0 ELSE ToNumber(l).n
      b == IF ToNumber(r).t = "nan" THEN 0 ELSE ToNumber(r).n
  IN  CASE ToNumber(l).t # "inf" /\ ToNumber(r).t # "inf" /\ a >= 0 /\ b >= 0 ->
             Num(Bits(op, a, b))

\* The inner switch of case "BinOp"
evalBinOp(op, left, right) ==
  CASE op = "OP_ADD" -> JsAdd(left, right)
    [] op = "OP_SUB" -> JsSub(left, right)
    [] op = "OP_MUL" -> JsMul(left, right)
    [] op = "OP_DIV" -> JsDiv(left, right)
    [] op = "COMP_EQ" -> JsEq(left, right)
    [] op = "COMP_NE" -> JsNe(left, right)
    [] op = "COMP_GT" -> JsGt(left, right)
    [] op = "COMP_GE" -> JsGe(left, right)
    [] op = "COMP_LT" -> JsLt(left, right)
    [] op = "COMP_LE" -> JsLe(left, right)
    [] op = "COMP_AND" -> IF Truthy(left) THEN right ELSE left
    [] op = "COMP_OR" -> IF Truthy(left) THEN left ELSE right
    [] op \in {"LOG_AND", "LOG_OR", "LOG_XOR"} -> Bitwise(op, left, right)

BinOps ==
  { "OP_ADD", "OP_SUB", "OP_MUL", "OP_DIV", "COMP_EQ", "COMP_NE", "COMP_GT",
    "COMP_GE", "COMP_LT", "COMP_LE", "COMP_AND", "COMP_OR", "LOG_AND",
    "LOG_OR", "LOG_XOR" }

\* History: an expression is evaluated after a return of the same call
noteEval(st) == IF st.returned THEN [st EXCEPT !.lateEval = TRUE] ELSE st

\* History: the first `return e` of a call has executed with value v
noteReturn(st, v) ==
  IF st.returned THEN st ELSE [st EXCEPT !.returned = TRUE, !.retVal = v]

\* History: a call starts its body, the caller's record put aside in saved
noteCall(st) == [st EXCEPT !.returned = FALSE, !.retVal = Unit, !.depth = @ + 1]

\* History: a call ends with value v; flag a value that is not the returned one
noteCallEnd(st, saved, v) ==
  [st EXCEPT !.callSkew = @ \/ (st.returned /\ v # st.retVal),
             !.returned = saved.returned, !.retVal = saved.retVal,
             !.depth = saved.depth]

RECURSIVE eval(_, _)
RECURSIVE evalStmt(_, _, _, _)
RECURSIVE evalWhile(_, _)
RECURSIVE bindArgs(_, _, _, _)
RECURSIVE callerArgs(_, _, _)

\* for (const e of expr.body) result = await this.eval(e)
evalStmt(st, body, i, result) ==
  IF i > Len(body) \/ st.err # "" THEN Res(st, result)
  ELSE LET r == eval(st, body[i]) IN evalStmt(r.st, body, i + 1, r.v)

\* while (await this.eval(expr.cond)) await this.eval(expr.body)
evalWhile(st, expr) ==
  LET c == eval(st, expr.cond)
  IN  IF c.st.err # "" \/ ~Truthy(c.v) THEN Res(c.st, Unit)
      ELSE evalWhile(eval(c.st, expr.body).st, expr)

\* The loop of case "FuncCall": evaluate args[i], then bind params[i]
bindArgs(st, params, args, i) ==
  IF i > Len(params) \/ st.err # "" THEN st
  ELSE LET r == eval(st, args[i])
       IN  bindArgs(setVar(r.st, params[i], r.v), params, args, i + 1)

\* History: the values the argument expressions have from left to right in
\* the caller's environment, no parameter bound
callerArgs(st, args, i) ==
  IF i > Len(args) \/ st.err # "" THEN <<>>
  ELSE LET r == eval(st, args[i]) IN <<r.v>> \o callerArgs(r.st, args, i + 1)

\* History: the values the parameters are bound to in the callee's scope
boundArgs(st, params) ==
  [i \in 1..Len(params) |->
     IF params[i] \in DOMAIN st.vars[Len(st.vars)]
     THEN st.vars[Len(st.vars)][params[i]] ELSE Unit]

eval(st0, expr) ==
  IF st0.err # "" THEN Res(st0, Unit)
  ELSE
  LET st == noteEval(st0) IN
  CASE expr.type = "Val" -> Res(st, expr.value)
    [] expr.type = "BinOp" ->
         LET left == eval(st, expr.left)
             right == eval(left.st, expr.right)
         IN  IF right.st.err # "" THEN Res(right.st, Unit)
             ELSE IF expr.op \in BinOps
                  THEN Res(right.st, evalBinOp(expr.op, left.v, right.v))
                  ELSE Res(err(right.st, "Interpreter: Unknown operator"), Unit)
    [] expr.type = "UnaryOp" ->
         LET val == eval(st, expr.argument)
         IN  IF val.st.err # "" THEN Res(val.st, Unit)
             ELSE CASE expr.op = "LOG_NOT" -> Res(val.st, JsNot(val.v))
                    [] expr.op = "OP_INC" ->
                         Res(modifyVar(val.st, expr.argument.name, JsInc(val.v)), val.v)
                    [] expr.op = "OP_DEC" ->
                         Res(modifyVar(val.st, expr.argument.name, JsDec(val.v)), val.v)
                    [] expr.op = "OP_NEG" -> Res(val.st, JsNeg(val.v))
                    [] OTHER -> Res(val.st, val.v)
    [] expr.type = "VarDecl" ->
         LET value == eval(st, expr.value)
         IN  Res(setVar(value.st, expr.name, value.v), Unit)
    [] expr.type = "VarMod" ->
         LET value == eval(st, expr.value)
         IN  Res(modifyVar(value.st, expr.name, value.v), Unit)
    [] expr.type = "Var" -> getVar(st, expr.name)
    [] expr.type = "Out" ->
         LET value == eval(st, expr.value)
             nl == getVar(value.st, "N")
         IN  IF nl.st.err # "" THEN Res(nl.st, Unit)
             ELSE Res([nl.st EXCEPT !.out = Append(@, value.v)], Unit)
    [] expr.type = "In" -> Res(setVar(st, expr.name, st.stdin), Unit)
    [] expr.type = "If" ->
         LET cond == eval(st, expr.cond)
         IN  IF cond.st.err # "" THEN Res(cond.st, Unit)
             ELSE IF Truthy(cond.v) THEN eval(cond.st, expr.body)
             ELSE IF expr.else # NoNode THEN eval(cond.st, expr.else)
             ELSE Res(cond.st, Unit)
    [] expr.type = "While" -> evalWhile(st, expr)
    [] expr.type = "Goto" ->
         IF expr.name \in DOMAIN st.labels
         THEN Res([st EXCEPT !.pc = st.labels[expr.name]], Unit)
         ELSE Res(err(st, "Context: No label found"), Unit)
    [] expr.type = "Label" -> Res(st, Unit)
    [] expr.type = "Stmt" ->
         LET result == evalStmt(ctxEnterScope(st), expr.body, 1, Unit)
         IN  IF result.st.err # "" THEN Res(result.st, Unit)
             ELSE Res(ctxExitScope(result.st), result.v)
    [] expr.type = "FuncDecl" ->
         Res(setFunc(st, expr.name, [params |-> expr.params, body |-> expr.body]), Unit)
    [] expr.type = "FuncCall" ->
         LET hit == {i \in 1..Len(st.funcs) : expr.name \in DOMAIN st.funcs[i]}
             fn == st.funcs[Last(hit)][expr.name]
             bound == bindArgs(ctxEnterScope(st), fn.params, expr.args, 1)
             skew == boundArgs(bound, fn.params) # callerArgs(st, expr.args, 1)
             result == eval(noteCall([bound EXCEPT !.argSkew = @ \/ skew]), fn.body)
         IN  IF hit = {} THEN Res(err(st, "Context: No function found"), Unit)
             ELSE IF Len(fn.params) # Len(expr.args)
                  THEN Res(err(st, "Interpreter: Function expects other args"), Unit)
             ELSE IF st.depth >= MaxCallDepth
                  THEN Res(err(st, "RangeError: Maximum call stack size exceeded"), Unit)
             ELSE IF bound.err # "" THEN Res(bound, Unit)
             ELSE IF result.st.err # "" THEN Res(result.st, Unit)
             ELSE Res(noteCallEnd(ctxExitScope(result.st), st, result.v), result.v)
    [] expr.type = "Exit" ->
         LET status == eval(st, expr.status)
         IN  IF status.st.err # "" THEN Res(status.st, Unit)
             ELSE Res(err(status.st, "Deno.exit"), Unit)
    [] expr.type = "Return" ->
         LET value == eval(st, expr.value)
         IN  IF value.st.err # "" THEN Res(value.st, Unit)
             ELSE Res(noteReturn(value.st, value.v), value.v)
    [] OTHER -> Res(err(st, "Interpreter: Unknown node type"), Unit)

\* The labels execute registers before its loop
\* setLabels recording the place after the label instead of the label's
RECURSIVE setLabelsAfter(_, _, _)
setLabelsAfter(labels, body, i) ==
  IF i > Len(body) THEN labels
  ELSE setLabelsAfter(IF body[i].type = "Label" THEN MapSet(labels, body[i].name, i)
                      ELSE labels, body, i + 1)

RECURSIVE setLabels(_, _, _)
setLabels(labels, body, i) ==
  IF i > Len(body) THEN labels
  ELSE setLabels(IF body[i].type = "Label" THEN MapSet(labels, body[i].name, i - 1)
                 ELSE labels, body, i + 1)

\* What a read of standard input may return
Inputs == {Str(<<97>>), Str(<<>>)}

(***************************************************************************)
(* Optimizer (opimizer.ts).  fold returns a node, or undefined (NoNode),   *)
(* or ends in the TypeError JavaScript raises when `.type` is read from    *)
(* undefined (Thrown), as when fold is handed the undefined child of a     *)
(* node it built before.                                                   *)
(***************************************************************************)
Thrown == [type |-> "TypeError"]

\* The value of the inner switch of case "BinOp" for two literal operands
foldBinOp(op, l, r) ==
  CASE op = "OP_ADD" -> JsAdd(l, r)
    [] op = "OP_SUB" -> JsSub(l, r)
    [] op = "OP_MUL" -> JsMul(l, r)
    [] op = "OP_DIV" -> JsDiv(l, r)
    [] op = "COMP_EQ" -> JsEq(l, r)
    [] op = "COMP_NE" -> JsNe(l, r)
    [] op = "COMP_GT" -> JsGt(l, r)
    [] op = "COMP_GE" -> JsGe(l, r)
    [] op = "COMP_LT" -> JsLt(l, r)
    [] op = "COMP_LE" -> JsLe(l, r)
    [] op = "COMP_AND" -> IF Truthy(l) THEN r ELSE l
    [] op = "COMP_OR" -> IF Truthy(l) THEN r ELSE l
    [] op \in {"LOG_AND", "LOG_OR", "LOG_XOR"} -> Bitwise(op, l, r)

\* The operators the inner switch of case "BinOp" has a case for
FoldedBinOps ==
  { "OP_ADD", "OP_SUB", "OP_MUL", "OP_DIV", "COMP_EQ", "COMP_NE", "COMP_GT",
    "COMP_GE", "COMP_LT", "COMP_LE", "COMP_AND", "COMP_OR", "LOG_AND",
    "LOG_OR", "LOG_XOR" }

RECURSIVE fold(_)
RECURSIVE foldBody(_, _)

\* A body whose map threw
BodyThrown(body) == body # <<>> /\ body[1] = Thrown

\* body.map((e) => this.fold(e)!).filter((e) => e !== undefined): the
\* sequence, or <<Thrown>> when a fold throws
foldBody(body, i) ==
  IF i > Len(body) THEN <<>>
  ELSE LET e == fold(body[i])
           rest == foldBody(body, i + 1)
       IN  IF e = Thrown \/ BodyThrown(rest) THEN <<Thrown>>
           ELSE IF e = NoNode THEN rest
           ELSE <<e>> \o rest

fold(expr) ==
  CASE expr = NoNode -> Thrown
    [] expr.type = "BinOp" ->
         LET left == fold(expr.left)
             right == fold(expr.right)
         IN  IF left = Thrown \/ right = Thrown \/ left = NoNode THEN Thrown
             ELSE IF left.type # "Val" THEN BinOp(expr.op, left, right)
             ELSE IF right = NoNode THEN Thrown
             ELSE IF right.type = "Val" /\ expr.op \in FoldedBinOps
                  THEN Val(foldBinOp(expr.op, left.value, right.value))
             ELSE BinOp(expr.op, left, right)
    [] expr.type = "UnaryOp" ->
         LET val == fold(expr.argument)
         IN  IF val = Thrown \/ val = NoNode THEN Thrown
             ELSE IF val.type = "Val" /\ expr.op = "OP_NEG" THEN Val(JsNeg(val.value))
             ELSE IF val.type = "Val" /\ expr.op = "LOG_NOT" THEN Val(JsNot(val.value))
             ELSE UnaryOp(expr.op, val)
    [] expr.type = "VarDecl" ->
         LET value == fold(expr.value)
         IN  IF value = Thrown THEN Thrown ELSE VarDecl(expr.name, value)
    [] expr.type = "If" ->
         LET cond == fold(expr.cond)
             body == fold(expr.body)
             els == IF expr.else # NoNode THEN fold(expr.else) ELSE NoNode
         IN  IF cond = Thrown \/ cond = NoNode THEN Thrown
             ELSE IF cond.type = "Val"
                  THEN IF Truthy(cond.value) THEN body
                       ELSE IF expr.else # NoNode THEN els
                       ELSE NoNode
             ELSE IF body = Thrown \/ els = Thrown THEN Thrown
             ELSE IfElse(expr.cond, body, els)
    [] expr.type = "While" ->
         LET cond == fold(expr.cond)
             body == fold(expr.body)
         IN  IF cond = Thrown \/ cond = NoNode THEN Thrown
             ELSE IF cond.type = "Val" /\ ~Truthy(cond.value) THEN NoNode
             ELSE IF body = Thrown THEN Thrown
             ELSE While(cond, body)
    [] expr.type = "Stmt" ->
         IF Len(expr.body) = 0 THEN NoNode
         ELSE LET body == foldBody(expr.body, 1)
              IN  IF BodyThrown(body) THEN Thrown ELSE Stmt(body)
    [] OTHER -> expr

\* Optimizer.optimize: the optimized Program, or Thrown
optimize(program) ==
  LET body == foldBody(program.body, 1)
  IN  IF BodyThrown(body) THEN Thrown ELSE Program(body)

(***************************************************************************)
(* GVM (bytecode/gvm.ts, the revision with CALL and RET).  One action per  *)
(* handler of jmpTable; vmStatus is "running" until HALT ("halted") or an  *)
(* uncaught exception ("crashed").                                         *)
(***************************************************************************)
VARIABLES prog, chunk, dbg, stdin, ip, stack, slots, callStack, currBaseSlot,
          vmOut, vmStatus, context, pc, result, itOut, itStatus, probe,
          results, acts, cur, nodeLog, labelLog, serPhase, serIn, file, loaded,
          optPhase, optIn, optOut, text, lex, parsePhase, parsed

\* The front end's run: the source text, the Lexer reading it, and what
\* Parser.parse has come to
srcVars == <<text, lex, parsePhase, parsed>>

\* The optimizer's run: the Program the parser handed over and what
\* optimize returned
optVars == <<optPhase, optIn, optOut>>

\* The serializer's run: what the compiler handed over, the bytes of the
\* .gbc file, and what load returned
serVars == <<serPhase, serIn, file, loaded>>

\* The program under execution, its Chunk with the debug information, and
\* what standard input holds; a run of a back-end leaves the .gbc file alone
fixed == <<prog, chunk, dbg, stdin, serVars, optVars, srcVars>>

\* History of the VM's run: the activations (the top level, then one per
\* call in progress) with the value last stored to each declaration and
\* the operand-stack depth under the call's arguments; the top-level node
\* in execution with the depth at its entry; and for each top-level node
\* that has ended, its net change of depth and the top of the stack; and
\* the operand-stack depth at each arrival at the address of a label
obsVars == <<acts, cur, nodeLog, labelLog>>

vmVars == <<ip, stack, slots, callStack, currBaseSlot, vmOut, vmStatus>>

\* probe and results are history of the Interpreter's run: the flags eval
\* raised, and the value of each top-level node evaluated
itVars == <<context, pc, result, itOut, itStatus, probe, results>>

vars == <<fixed, vmVars, itVars, obsVars>>

\* this.chunk.code[k]
Byte(k) == chunk.code[k + 1]

\* The opcode the loop fetches next
Fetch == IF ip < Len(chunk.code) THEN OpName(Byte(ip)) ELSE "?"

\* Array.prototype.pop: undefined from an empty array, which stays empty
Top(s) == IF s = <<>> THEN Unit ELSE s[Len(s)]

Pop(s) == IF s = <<>> THEN <<>> ELSE SubSeq(s, 1, Len(s) - 1)

\* this.slots[i]: undefined beyond the array's length
SlotGet(sl, i) == IF i < Len(sl) THEN sl[i + 1] ELSE Unit

\* this.slots[i] = v: an assignment beyond the length grows the array
SlotSet(sl, i, v) ==
  [k \in 1..(IF i + 1 > Len(sl) THEN i + 1 ELSE Len(sl)) |->
     IF k = i + 1 THEN v ELSE IF k <= Len(sl) THEN sl[k] ELSE Unit]

\* new Array<Literal>(maxSlot)
NewSlots(maxSlot) == [k \in 1..maxSlot |-> Unit]

Running(name) == vmStatus = "running" /\ Fetch = name

\* (high << 8) | low of the two bytes after the opcode
TargetAt(at) == Byte(at + 1) * 256 + Byte(at + 2)

Target == TargetAt(ip)

\* The k values CALL pops, in push order (args[k-1] ... args[0] of the source)
RECURSIVE PopArgs(_, _)
PopArgs(s, k) == IF k = 0 THEN <<>> ELSE Append(PopArgs(Pop(s), k - 1), Top(s))

RECURSIVE PopN(_, _)
PopN(s, k) == IF k = 0 THEN s ELSE PopN(Pop(s), k - 1)

\* History: the activation that holds declaration id: the running one for a
\* declaration of the running function, else the latest one of its owner
Home(id) ==
  LET own == {j \in 1..Len(acts) : acts[j].fn = dbg.owner[id]}
  IN  IF own = {} THEN Len(acts) ELSE Last(own)

\* History: the value last stored to declaration id, undefined if none was
Stored(id) ==
  IF id \in DOMAIN acts[Home(id)].vals THEN acts[Home(id)].vals[id] ELSE Unit

\* History: the callee's activation, its parameters holding the arguments,
\* and the slot array as it is when CALL begins
NewActivation ==
  LET ids == IF Target \in DOMAIN dbg.params THEN dbg.params[Target] ELSE <<>>
      args == PopArgs(stack, Byte(ip + 3))
  IN  [fn |-> Target, depth |-> Len(PopN(stack, Byte(ip + 3))), slots |-> slots,
       vals |-> [id \in {ids[i] : i \in 1..Len(ids)} |->
                   args[CHOOSE i \in 1..Len(ids) : ids[i] = id]]]

\* History: zero-length top-level nodes from `node` on end as they start
RECURSIVE EndEmpty(_, _, _)
EndEmpty(log, node, top) ==
  IF node < Len(dbg.marks) /\ dbg.marks[node + 1] = dbg.marks[node]
  THEN EndEmpty(Append(log, [node |-> node, delta |-> 0, top |-> top]), node + 1, top)
  ELSE [log |-> log, node |-> node]

\* History, kept by every step of the VM
Observe ==
  /\ acts' =
       CASE Fetch = "CALL" -> Append(acts, NewActivation)
         [] Fetch = "RET" /\ callStack # <<>> -> SubSeq(acts, 1, Len(acts) - 1)
         [] Fetch \in {"STORE_VAR", "IN"} /\ ip \in DOMAIN dbg.stores ->
              [acts EXCEPT ![Home(dbg.stores[ip])].vals =
                 MapSet(@, dbg.stores[ip], IF Fetch = "IN" THEN stdin ELSE Top(stack))]
         [] OTHER -> acts
  /\ IF /\ callStack' = <<>>
        /\ cur.node < Len(dbg.marks)
        /\ ip' = dbg.marks[cur.node + 1]
     THEN LET e == EndEmpty(Append(nodeLog, [node |-> cur.node,
                                             delta |-> Len(stack') - cur.depth,
                                             top |-> Top(stack')]),
                            cur.node + 1, Top(stack'))
          IN  /\ nodeLog' = e.log
              /\ cur' = [node |-> e.node, depth |-> Len(stack')]
     ELSE UNCHANGED <<cur, nodeLog>>
  /\ labelLog' = IF vmStatus' = "running" /\ ip' \in dbg.labelAddrs
                 THEN Append(labelLog, [addr |-> ip', depth |-> Len(stack')])
                 ELSE labelLog

LOAD_CONST ==
  /\ Running("LOAD_CONST")
  /\ stack' = Append(stack, IF Byte(ip + 1) < Len(chunk.constants)
                            THEN chunk.constants[Byte(ip + 1) + 1] ELSE Unit)
  /\ ip' = ip + 2
  /\ UNCHANGED <<fixed, itVars, slots, callStack, currBaseSlot, vmOut, vmStatus>>
  /\ Observe

LOAD_VAR ==
  /\ Running("LOAD_VAR")
  /\ stack' = Append(stack, SlotGet(slots, currBaseSlot + Byte(ip + 1)))
  /\ ip' = ip + 2
  /\ UNCHANGED <<fixed, itVars, slots, callStack, currBaseSlot, vmOut, vmStatus>>
  /\ Observe

\* The operand stack STORE_VAR leaves
storeVarStack(s) == Pop(s)

STORE_VAR ==
  /\ Running("STORE_VAR")
  /\ slots' = SlotSet(slots, currBaseSlot + Byte(ip + 1), Top(stack))
  /\ stack' = storeVarStack(stack)
  /\ ip' = ip + 2
  /\ UNCHANGED <<fixed, itVars, callStack, currBaseSlot, vmOut, vmStatus>>
  /\ Observe

\* A handler that pops right, pops left and pushes F(left, right)
Binary(name, F(_, _)) ==
  /\ Running(name)
  /\ stack' = Append(Pop(Pop(stack)), F(Top(Pop(stack)), Top(stack)))
  /\ ip' = ip + 1
  /\ UNCHANGED <<fixed, itVars, slots, callStack, currBaseSlot, vmOut, vmStatus>>
  /\ Observe

\* A handler that pops val and pushes F(val)
Unary(name, F(_)) ==
  /\ Running(name)
  /\ stack' = Append(Pop(stack), F(Top(stack)))
  /\ ip' = ip + 1
  /\ UNCHANGED <<fixed, itVars, slots, callStack, currBaseSlot, vmOut, vmStatus>>
  /\ Observe

ADD == Binary("ADD", JsAdd)

SUB == Binary("SUB", JsSub)

MUL == Binary("MUL", JsMul)

DIV == Binary("DIV", JsDiv)

EQ == Binary("EQ", JsEq)

NE == Binary("NE", JsNe)

GT == Binary("GT", JsGt)

GE == Binary("GE", JsGe)

LT == Binary("LT", JsLt)

LE == Binary("LE", JsLe)

NEG == Unary("NEG", JsNeg)

INC == Unary("INC", JsInc)

DEC == Unary("DEC", JsDec)

LOG_NOT == Unary("LOG_NOT", JsNot)

OUT ==
  /\ Running("OUT")
  /\ vmOut' = Append(vmOut, Top(stack))
  /\ stack' = Pop(stack)
  /\ ip' = ip + 1
  /\ UNCHANGED <<fixed, itVars, slots, callStack, currBaseSlot, vmStatus>>
  /\ Observe

\* The handler of Op.IN (IN is a reserved word of TLA+)
INPUT ==
  /\ Running("IN")
  /\ slots' = SlotSet(slots, currBaseSlot + Byte(ip + 1), stdin)
  /\ ip' = ip + 2
  /\ UNCHANGED <<fixed, itVars, stack, callStack, currBaseSlot, vmOut, vmStatus>>
  /\ Observe

POP ==
  /\ Running("POP")
  /\ stack' = Pop(stack)
  /\ ip' = ip + 1
  /\ UNCHANGED <<fixed, itVars, slots, callStack, currBaseSlot, vmOut, vmStatus>>
  /\ Observe

JUMP ==
  /\ Running("JUMP")
  /\ ip' = Target
  /\ UNCHANGED <<fixed, itVars, stack, slots, callStack, currBaseSlot, vmOut, vmStatus>>
  /\ Observe

JUMP_IF_FALSE ==
  /\ Running("JUMP_IF_FALSE")
  /\ stack' = Pop(stack)
  /\ ip' = IF Truthy(Top(stack)) THEN ip + 3 ELSE Target
  /\ UNCHANGED <<fixed, itVars, slots, callStack, currBaseSlot, vmOut, vmStatus>>
  /\ Observe

\* The slot CALL makes the callee's baseSlot
callBaseOfCaller(sl) == 0

callBase(sl) == Len(sl)

CALL ==
  /\ Running("CALL")
  /\ callStack' = Append(callStack, [returnIp |-> ip + 4, baseSlot |-> currBaseSlot])
  /\ slots' = slots \o PopArgs(stack, Byte(ip + 3))
  /\ stack' = PopN(stack, Byte(ip + 3))
  /\ currBaseSlot' = callBase(slots)
  /\ ip' = Target
  /\ UNCHANGED <<fixed, itVars, vmOut, vmStatus>>
  /\ Observe

\* The operand stack RET leaves once the frame is popped
retStack(s) == IF Top(s) # Unit THEN Append(Pop(s), Top(s)) ELSE Pop(s)

RET ==
  /\ Running("RET")
  /\ IF callStack = <<>>
     THEN /\ stack' = Pop(stack)
          /\ ip' = ip + 1
          /\ UNCHANGED <<slots, callStack, currBaseSlot>>
     ELSE /\ callStack' = Pop(callStack)
          /\ slots' = SubSeq(slots, 1, currBaseSlot)
          /\ ip' = Top(callStack).returnIp
          /\ currBaseSlot' = Top(callStack).baseSlot
          /\ stack' = retStack(stack)
  /\ UNCHANGED <<fixed, itVars, vmOut, vmStatus>>
  /\ Observe

\* Deno.exit(status)
EXIT ==
  /\ Running("EXIT")
  /\ stack' = Pop(stack)
  /\ vmStatus' = "exited"
  /\ ip' = ip + 1
  /\ UNCHANGED <<fixed, itVars, slots, callStack, currBaseSlot, vmOut>>
  /\ Observe

HALT ==
  /\ Running("HALT")
  /\ vmStatus' = "halted"
  /\ ip' = ip + 1
  /\ UNCHANGED <<fixed, itVars, stack, slots, callStack, currBaseSlot, vmOut>>
  /\ Observe

\* The opcodes jmpTable has a handler for
Handled ==
  { "LOAD_CONST", "LOAD_VAR", "STORE_VAR", "ADD", "SUB", "MUL", "DIV", "EQ",
    "NE", "GT", "GE", "LT", "LE", "OUT", "IN", "POP", "NEG", "INC", "DEC",
    "LOG_NOT", "LOG_AND", "LOG_OR", "LOG_XOR", "JUMP", "JUMP_IF_FALSE",
    "CALL", "RET", "EXIT", "EVAL" }

\* jmpTable[op]() for an op without a handler: TypeError, uncaught
NoHandler ==
  /\ vmStatus = "running"
  /\ Fetch \notin Handled \cup {"HALT"}
  /\ vmStatus' = "crashed"
  /\ ip' = ip + 1
  /\ UNCHANGED <<fixed, itVars, stack, slots, callStack, currBaseSlot, vmOut>>
  /\ Observe

(***************************************************************************)
(* Interpreter.execute: its prologue, one iteration of its loop, and its   *)
(* return.                                                                 *)
(***************************************************************************)
body == Programs[prog].body

\* The record eval threads, built from the state
EvalState ==
  [vars |-> context.vars, funcs |-> context.funcs, labels |-> context.labels,
   pc |-> pc, out |-> itOut, err |-> "", stdin |-> stdin, depth |-> 0,
   returned |-> FALSE, retVal |-> Unit, lateEval |-> probe.lateEval,
   callSkew |-> probe.callSkew, argSkew |-> probe.argSkew]

ExecuteStart ==
  /\ itStatus = "new"
  /\ context' = [context EXCEPT !.labels = setLabels(@, body, 1)]
  /\ itStatus' = IF Len(body) = 0 THEN "done" ELSE "running"
  /\ UNCHANGED <<fixed, vmVars, obsVars, pc, result, itOut, probe, results>>

ExecuteStep ==
  /\ itStatus = "running"
  /\ pc < Len(body)
  /\ LET r == eval(EvalState, body[pc + 1])
     IN  /\ context' = [vars |-> r.st.vars, funcs |-> r.st.funcs, labels |-> r.st.labels]
         /\ itOut' = r.st.out
         /\ probe' = [lateEval |-> r.st.lateEval, callSkew |-> r.st.callSkew,
                      argSkew |-> r.st.argSkew]
         /\ IF r.st.err # ""
            THEN /\ itStatus' = IF r.st.err = "Deno.exit" THEN "exited" ELSE "crashed"
                 /\ UNCHANGED <<pc, result, results>>
            ELSE /\ pc' = r.st.pc + 1
                 /\ result' = r.v
                 /\ results' = Append(results, [node |-> pc + 1, v |-> r.v])
                 /\ UNCHANGED itStatus
  /\ UNCHANGED <<fixed, vmVars, obsVars>>

ExecuteReturn ==
  /\ itStatus = "running"
  /\ pc >= Len(body)
  /\ itStatus' = "done"
  /\ UNCHANGED <<fixed, vmVars, obsVars, context, pc, result, itOut, probe, results>>

NotLoaded == [err |-> "not loaded", code |-> <<>>, constants |-> <<>>, maxSlot |-> 0]

\* A GVM and an Interpreter constructed for `program`
RunOf(program) ==
  /\ chunk = compile(program)
  /\ dbg = debugInfo(program)
  /\ stdin \in Inputs
  /\ ip = 0
  /\ stack = <<>>
  /\ slots = NewSlots(chunk.maxSlot)
  /\ callStack = <<>>
  /\ currBaseSlot = 0
  /\ vmOut = <<>>
  /\ vmStatus = IF chunk.err = "" THEN "running" ELSE "rejected"
  /\ context = NewContext
  /\ pc = 0
  /\ result = Unit
  /\ itOut = <<>>
  /\ itStatus = "new"
  /\ probe = [lateEval |-> FALSE, callSkew |-> FALSE, argSkew |-> FALSE]
  /\ results = <<>>
  /\ acts = << [fn |-> -1, depth |-> 0, vals |-> EmptyMap, slots |-> <<>>] >>
  /\ LET e == EndEmpty(<<>>, 1, Unit)
     IN  nodeLog = e.log /\ cur = [node |-> e.node, depth |-> 0]
  /\ labelLog = IF chunk.err = "" /\ 0 \in dbg.labelAddrs
                THEN <<[addr |-> 0, depth |-> 0]>> ELSE <<>>

\* The runs of the programs numbered in `progs`
RunInit(progs) ==
  /\ prog \in progs
  /\ RunOf(Programs[prog])

\* Every program but the two with hundreds of literals
ShortPrograms ==
  {i \in 1..Len(Programs) : Programs[i] \notin {ProgManyLiterals, ProgLongBlock}}

\* No optimizer run
OptIdle ==
  /\ optPhase = "idle"
  /\ optIn = Program(<<>>)
  /\ optOut = NoNode

\* No front-end run
SrcIdle ==
  /\ text = <<>>
  /\ lex = NewLexer
  /\ parsePhase = "idle"
  /\ parsed = [err |-> "", program |-> NoNode]

\* No serializer run
SerIdle ==
  /\ serPhase = "idle"
  /\ serIn = [code |-> <<>>, constants |-> <<>>, maxSlot |-> 0]
  /\ file = <<>>
  /\ loaded = NotLoaded

Init ==
  /\ RunInit(ShortPrograms)
  /\ SerIdle
  /\ OptIdle
  /\ SrcIdle

Next ==
  \/ LOAD_CONST
  \/ LOAD_VAR
  \/ STORE_VAR
  \/ ADD
  \/ SUB
  \/ MUL
  \/ DIV
  \/ EQ
  \/ NE
  \/ GT
  \/ GE
  \/ LT
  \/ LE
  \/ NEG
  \/ INC
  \/ DEC
  \/ LOG_NOT
  \/ OUT
  \/ INPUT
  \/ POP
  \/ JUMP
  \/ JUMP_IF_FALSE
  \/ CALL
  \/ RET
  \/ EXIT
  \/ HALT
  \/ NoHandler
  \/ ExecuteStart
  \/ ExecuteStep
  \/ ExecuteReturn

Spec == Init /\ [][Next]_vars

\* The runs of Spec and the runs of ProgManyLiterals and ProgLongBlock
LongInit ==
  /\ RunInit(1..Len(Programs))
  /\ SerIdle
  /\ OptIdle
  /\ SrcIdle

SpecLong == LongInit /\ [][Next]_vars


(***************************************************************************)
(* Serializer (bytecode/serialize.ts): serializeToBinary and load, at the  *)
(* level of the bytes of the file.  DataView writes an integer modulo two  *)
(* to its width; TextEncoder and TextDecoder are UTF-8 over the code       *)
(* points below U+10000, and the decoder drops a leading U+FEFF.           *)
(***************************************************************************)
\* The most literals written by out, and the most declarations, in a program
\* whose chunk is serialized
MaxConsts == 2

MaxLets == 2

\* 2 to the k
RECURSIVE Pow2(_)
Pow2(k) == IF k = 0 THEN 1 ELSE 2 * Pow2(k - 1)

\* The position of the leading one bit of n >= 1
RECURSIVE Log2(_)
Log2(n) == IF n < 2 THEN 0 ELSE 1 + Log2(n \div 2)

\* dataView.setUint16(offset, n, true)
setUint16(n) == <<n % 256, (n \div 256) % 256>>

\* dataView.setUint32(offset, n, true)
setUint32(n) ==
  <<n % 256, (n \div 256) % 256, (n \div 65536) % 256, (n \div 16777216) % 256>>

\* dataView.setFloat64(offset, x, true) for an integer below 2^21 in
\* magnitude or NaN: sign, 11 bits of biased exponent, and the fraction, of
\* which only the upper 20 bits can be set
setFloat64(v) ==
  LET a == IF v.n < 0 THEN 0 - v.n ELSE v.n
      e == Log2(a)
      frac == (a - Pow2(e)) * Pow2(20 - e)
      expo == e + 1023
      sign == IF v.n < 0 THEN 128 ELSE 0
  IN  IF v.t = "nan" THEN <<0, 0, 0, 0, 0, 0, 248, 127>>
      ELSE IF a = 0 THEN <<0, 0, 0, 0, 0, 0, 0, 0>>
      ELSE <<0, 0, 0, 0, frac % 256, (frac \div 256) % 256,
             ((expo % 16) * 16) + (frac \div 65536), sign + (expo \div 16)>>

\* dataView.getFloat64(offset, true); a double that is no integer of the
\* model is kept as its bytes
getFloat64(b) ==
  LET expo == ((b[8] % 128) * 16) + (b[7] \div 16)
      frac == ((b[7] % 16) * 65536) + (b[6] * 256) + b[5]
      e == expo - 1023
      low == b[1] + b[2] + b[3] + b[4]
  IN  IF expo = 2047 /\ frac + low > 0 THEN NaN
      ELSE IF expo = 0 /\ frac + low = 0 THEN Num(0)
      ELSE IF low = 0 /\ e >= 0 /\ e <= 20 /\ frac % Pow2(20 - e) = 0
           THEN Num((IF b[8] >= 128 THEN -1 ELSE 1) * (Pow2(e) + (frac \div Pow2(20 - e))))
           ELSE [t |-> "double", n |-> 0, s |-> b]

\* encoder.encode(str)
RECURSIVE encode(_)
encode(cps) ==
  IF cps = <<>> THEN <<>>
  ELSE LET cp == Head(cps)
       IN  (IF cp < 128 THEN <<cp>>
            ELSE IF cp < 2048 THEN <<192 + (cp \div 64), 128 + (cp % 64)>>
            ELSE <<224 + (cp \div 4096), 128 + ((cp \div 64) % 64), 128 + (cp % 64)>>)
           \o encode(Tail(cps))

IsCont(b, i) == i <= Len(b) /\ b[i] >= 128 /\ b[i] < 192

\* The code points of UTF-8 bytes, U+FFFD for a byte that starts no sequence
\* of at most three bytes
RECURSIVE utf8(_, _)
utf8(b, i) ==
  IF i > Len(b) THEN <<>>
  ELSE IF b[i] < 128 THEN <<b[i]>> \o utf8(b, i + 1)
  ELSE IF b[i] >= 194 /\ b[i] < 224 /\ IsCont(b, i + 1)
       THEN <<((b[i] - 192) * 64) + (b[i + 1] - 128)>> \o utf8(b, i + 2)
  ELSE IF b[i] >= 224 /\ b[i] < 240 /\ IsCont(b, i + 1) /\ IsCont(b, i + 2)
       THEN <<((b[i] - 224) * 4096) + ((b[i + 1] - 128) * 64) + (b[i + 2] - 128)>>
            \o utf8(b, i + 3)
  ELSE <<65533>> \o utf8(b, i + 1)

\* new TextDecoder().decode(bytes): ignoreBOM is false, a leading U+FEFF is
\* not part of the result
decode(b) ==
  LET cps == utf8(b, 1)
  IN  IF cps # <<>> /\ Head(cps) = 65279 THEN Tail(cps) ELSE cps

\* The tag and payload serializeToBinary writes for one constant
constantBytes(constant) ==
  CASE constant.t = "unit" -> <<0>>
    [] constant.t \in {"num", "nan"} -> <<1>> \o setFloat64(constant)
    [] constant.t = "bool" -> <<2, constant.n>>
    [] constant.t = "str" ->
         <<3>> \o setUint16(Len(encode(constant.s))) \o encode(constant.s)

RECURSIVE constantsBytes(_)
constantsBytes(constants) ==
  IF constants = <<>> THEN <<>>
  ELSE constantBytes(Head(constants)) \o constantsBytes(Tail(constants))

serializeToBinary(c, maxSlot) ==
  <<71, 79, 83, 66>> \o setUint16(1) \o setUint32(Len(c.code)) \o c.code
    \o setUint16(Len(c.constants)) \o constantsBytes(c.constants)
    \o setUint16(maxSlot)

\* dataView.getUint8(offset): a RangeError (-1 here) beyond the buffer
getUint8(data, offset) == IF offset < Len(data) THEN data[offset + 1] ELSE -1

getUint16(data, offset) ==
  IF offset + 1 < Len(data) THEN data[offset + 1] + (256 * data[offset + 2]) ELSE -1

getUint32(data, offset) ==
  IF offset + 3 < Len(data)
  THEN data[offset + 1] + (256 * data[offset + 2]) + (65536 * data[offset + 3])
         + (16777216 * data[offset + 4])
  ELSE -1

\* The loop over the constants of load: the constants read, the offset
\* reached, and the error thrown
RECURSIVE loadConstants(_, _, _, _)
loadConstants(data, offset, count, constants) ==
  LET type == getUint8(data, offset)
      strLength == getUint16(data, offset + 1)
  IN  IF count = 0 THEN [err |-> "", constants |-> constants, offset |-> offset]
      ELSE CASE type = -1 ->
                  [err |-> "RangeError", constants |-> constants, offset |-> offset]
             [] type = 0 ->
                  loadConstants(data, offset + 1, count - 1, Append(constants, Unit))
             [] type = 1 ->
                  IF offset + 8 < Len(data)
                  THEN loadConstants(data, offset + 9, count - 1,
                         Append(constants, getFloat64(SubSeq(data, offset + 2, offset + 9))))
                  ELSE [err |-> "RangeError", constants |-> constants, offset |-> offset]
             [] type = 2 ->
                  IF offset + 1 < Len(data)
                  THEN loadConstants(data, offset + 2, count - 1,
                         Append(constants, Bool(data[offset + 2] # 0)))
                  ELSE [err |-> "RangeError", constants |-> constants, offset |-> offset]
             [] type = 3 ->
                  IF strLength # -1 /\ offset + 3 + strLength <= Len(data)
                  THEN loadConstants(data, offset + 3 + strLength, count - 1,
                         Append(constants,
                                Str(decode(SubSeq(data, offset + 4, offset + 3 + strLength)))))
                  ELSE [err |-> "RangeError", constants |-> constants, offset |-> offset]
             [] OTHER ->
                  [err |-> "Unknown constant type", constants |-> constants,
                   offset |-> offset]

Failed(msg) == [err |-> msg, code |-> <<>>, constants |-> <<>>, maxSlot |-> 0]

\* load with the check of the version left out
loadAnyVersion(data) ==
  LET codeLength == getUint32(data, 6)
      constantsCount == getUint16(data, 10 + codeLength)
      cs == loadConstants(data, 12 + codeLength, constantsCount, <<>>)
      maxSlot == getUint16(data, cs.offset)
  IN  IF Len(data) < 4 THEN Failed("RangeError")
      ELSE IF SubSeq(data, 1, 4) # <<71, 79, 83, 66>>
           THEN Failed("Invalid bytecode file format")
      ELSE IF codeLength = -1 \/ 10 + codeLength > Len(data) THEN Failed("RangeError")
      ELSE IF constantsCount = -1 THEN Failed("RangeError")
      ELSE IF cs.err # "" THEN Failed(cs.err)
      ELSE IF maxSlot = -1 THEN Failed("RangeError")
      ELSE [err |-> "", code |-> SubSeq(data, 11, 10 + codeLength),
            constants |-> cs.constants, maxSlot |-> maxSlot]

load(data) ==
  LET codeLength == getUint32(data, 6)
      constantsCount == getUint16(data, 10 + codeLength)
      cs == loadConstants(data, 12 + codeLength, constantsCount, <<>>)
      maxSlot == getUint16(data, cs.offset)
  IN  IF Len(data) < 4 THEN Failed("RangeError")
      ELSE IF SubSeq(data, 1, 4) # <<71, 79, 83, 66>>
           THEN Failed("Invalid bytecode file format")
      ELSE IF getUint16(data, 4) = -1 THEN Failed("RangeError")
      ELSE IF getUint16(data, 4) # 1 THEN Failed("Unsupported bytecode version")
      ELSE IF codeLength = -1 \/ 10 + codeLength > Len(data) THEN Failed("RangeError")
      ELSE IF constantsCount = -1 THEN Failed("RangeError")
      ELSE IF cs.err # "" THEN Failed(cs.err)
      ELSE IF maxSlot = -1 THEN Failed("RangeError")
      ELSE [err |-> "", code |-> SubSeq(data, 11, 10 + codeLength),
            constants |-> cs.constants, maxSlot |-> maxSlot]

\* Constants a program text can hold: null, numbers, booleans, and strings
\* of one-, two- and three-byte characters
SerConstants ==
  { Unit, Num(0), Num(1), Num(300), Num(-2), Bool(TRUE), Bool(FALSE),
    Str(<<>>), Str(<<97>>), Str(<<233, 8364>>), Str(<<65279, 97>>) }

RECURSIVE SeqsUpTo(_, _)
SeqsUpTo(S, k) ==
  IF k = 0 THEN {<<>>}
  ELSE SeqsUpTo(S, k - 1) \cup
       {Append(q, x) : q \in {r \in SeqsUpTo(S, k - 1) : Len(r) = k - 1}, x \in S}

\* let x1 = 1 ... let xk = k  out c1 ... out cn
SerProgram(k, cs) ==
  Program([i \in 1..k |-> VarDecl(<<"x", i>>, N(i))]
            \o [i \in 1..Len(cs) |-> Out(Val(cs[i]))])

\* The chunks and maxSlots the Compiler produces for these programs
SerInputs ==
  { [code |-> compile(SerProgram(k, cs)).code,
     constants |-> compile(SerProgram(k, cs)).constants,
     maxSlot |-> compile(SerProgram(k, cs)).maxSlot] :
      k \in 0..MaxLets, cs \in SeqsUpTo(SerConstants, MaxConsts) }

\* compile() of serialize.ts hands the compiler's result to serializeToBinary
\* and writes the file
Save ==
  /\ serPhase = "compiled"
  /\ file' = serializeToBinary(serIn, serIn.maxSlot)
  /\ serPhase' = "saved"
  /\ UNCHANGED <<prog, chunk, dbg, stdin, vmVars, itVars, obsVars, optVars, srcVars,
               serIn, loaded>>

Load ==
  /\ serPhase = "saved"
  /\ loaded' = load(file)
  /\ serPhase' = "loaded"
  /\ UNCHANGED <<prog, chunk, dbg, stdin, vmVars, itVars, obsVars, optVars, srcVars,
               serIn, file>>

SerInit ==
  /\ RunInit({1})
  /\ stdin = Str(<<>>)
  /\ serPhase = "compiled"
  /\ serIn \in SerInputs
  /\ file = <<>>
  /\ loaded = NotLoaded
  /\ OptIdle
  /\ SrcIdle

SerNext ==
  \/ Save
  \/ Load

SpecSer == SerInit /\ [][SerNext]_vars

(***************************************************************************)
(* load on files the serializer did not write.  Under SpecLoad the file is *)
(* a header of six bytes, each the byte serializeToBinary writes there or  *)
(* another one, followed by what serializeToBinary writes after the        *)
(* header, or it is the beginning of such a header.                        *)
(***************************************************************************)
Magic == <<71, 79, 83, 66>>

\* Bytes a file can hold at the places of the magic and of the version
HeaderBytes ==
  [i \in 1..6 |->
     CASE i = 1 -> {71, 0, 103}
       [] i = 2 -> {79, 0, 71}
       [] i = 3 -> {83, 0, 79}
       [] i = 4 -> {66, 0, 98}
       [] i = 5 -> {1, 0, 2}
       [] i = 6 -> {0, 1}]

Headers ==
  { <<b1, b2, b3, b4, b5, b6>> :
      b1 \in HeaderBytes[1], b2 \in HeaderBytes[2], b3 \in HeaderBytes[3],
      b4 \in HeaderBytes[4], b5 \in HeaderBytes[5], b6 \in HeaderBytes[6] }

\* What serializeToBinary writes after the header, for three chunks
FileBodies ==
  { SubSeq(serializeToBinary(c, c.maxSlot), 7, Len(serializeToBinary(c, c.maxSlot))) :
      c \in { compile(ProgArith), compile(ProgShadow),
              compile(SerProgram(1, <<Str(<<97>>), Unit>>)) } }

LoadFiles ==
  {h \o b : h \in Headers, b \in FileBodies}
    \cup {SubSeq(h, 1, k) : h \in Headers, k \in 0..5}

LoadInit ==
  /\ RunInit({1})
  /\ stdin = Str(<<>>)
  /\ serPhase = "saved"
  /\ serIn = [code |-> <<>>, constants |-> <<>>, maxSlot |-> 0]
  /\ file \in LoadFiles
  /\ loaded = NotLoaded
  /\ OptIdle
  /\ SrcIdle

LoadNext == Load

SpecLoad == LoadInit /\ [][LoadNext]_vars

(***************************************************************************)
(* The front end's run.  Under SpecParse the text is at most MaxPieces     *)
(* words, names, literals and brackets, each followed by a space, and      *)
(* Parser.parse is called on it; while the parser is in the loop over a    *)
(* function's parameters with the text at its end, every iteration leaves  *)
(* the state as it is.                                                     *)
(***************************************************************************)
MaxPieces == 4

ParsePieces ==
  { <<"f", "u", "n", " ">>, <<"(", " ">>, <<")", " ">>, <<"{", " ">>,
    <<"}", " ">>, <<"1", " ">>, <<"x", " ">>, <<"o", "u", "t", " ">>,
    <<"g", "o", "t", "o", " ">>, <<"e", "x", "i", "t", " ">>, <<"i", "n", " ">> }

RECURSIVE TextsUpTo(_, _)
TextsUpTo(pieces, k) ==
  IF k = 0 THEN {<<>>}
  ELSE LET shorter == TextsUpTo(pieces, k - 1)
       IN  shorter \cup {t \o p : t \in shorter, p \in pieces}

ParseTexts == TextsUpTo(ParsePieces, MaxPieces)

\* The rest of the program is not run
FrontEndOnly ==
  /\ RunInit({1})
  /\ stdin = Str(<<>>)
  /\ SerIdle
  /\ OptIdle

\* parser.parse() up to its return, to the diagnostic it throws, or into the
\* loop it does not leave
Parse ==
  /\ parsePhase = "start"
  /\ LET outcome == parse(text)
     IN  /\ parsed' = [err |-> outcome.err, program |-> outcome.program]
         /\ lex' = outcome.lexer
         /\ parsePhase' = CASE outcome.err = "" -> "returned"
                            [] outcome.err = NeverReturns -> "params"
                            [] OTHER -> "aborted"
  /\ UNCHANGED <<prog, chunk, dbg, stdin, serVars, optVars, vmVars, itVars, obsVars, text>>

\* One more iteration of the loop over the parameters at the end of the text
ParamsLoop ==
  /\ parsePhase = "params"
  /\ nextToken(text, lex) = lex
  /\ UNCHANGED vars

ParseInit ==
  /\ FrontEndOnly
  /\ text \in ParseTexts
  /\ lex = NewLexer
  /\ parsePhase = "start"
  /\ parsed = [err |-> "", program |-> NoNode]

ParseNext ==
  \/ Parse
  \/ ParamsLoop

\* The loop goes on while it can
SpecParse == ParseInit /\ [][ParseNext]_vars /\ WF_vars(ParamsLoop)

(***************************************************************************)
(* The lexer's run.  Under SpecLex the text is at most MaxLexPieces signs, *)
(* operators, brackets, names, literals and spaces, and Lexer.nextToken is *)
(* called on it until it throws; at the end of the text every call leaves  *)
(* the token EOF.                                                          *)
(***************************************************************************)
MaxLexPieces == 4

LexPieces ==
  { <<"+">>, <<"-">>, <<"1">>, <<"x">>, <<"(">>, <<")">>, <<"=">>, <<"<">>,
    <<"!">>, <<":">>, <<"*">>, <<" ">>, <<"o", "u", "t", " ">> }

LexTexts == TextsUpTo(LexPieces, MaxLexPieces)

\* lexer.nextToken()
NextToken ==
  /\ parsePhase = "lexing"
  /\ lex.err = ""
  /\ lex' = nextToken(text, lex)
  /\ UNCHANGED <<prog, chunk, dbg, stdin, serVars, optVars, vmVars, itVars, obsVars,
                 text, parsePhase, parsed>>

LexInit ==
  /\ FrontEndOnly
  /\ text \in LexTexts
  /\ lex = NewLexer
  /\ parsePhase = "lexing"
  /\ parsed = [err |-> "", program |-> NoNode]

LexNext == NextToken

SpecLex == LexInit /\ [][LexNext]_vars

(***************************************************************************)
(* The optimizer's run.  Under SpecFold the parser's Program is one        *)
(* expression of literals and operators the Optimizer folds; the Optimizer *)
(* optimizes it while the GVM runs the Chunk compiled from it as parsed.   *)
(* Under SpecOpt the Program is a small program with declarations, if and  *)
(* while, which the Optimizer optimizes.                                   *)
(***************************************************************************)
MaxNum == 2

NumLits == {Num(k) : k \in 0..MaxNum}

\* The literals of the lexer: numbers, true, "" and null
FoldLits == NumLits \cup {Bool(TRUE), Str(<<>>), Unit}

FoldedUnaryOps == {"OP_NEG", "LOG_NOT"}

\* The value the Interpreter gives an expression in a new Context
FreshState ==
  [vars |-> NewContext.vars, funcs |-> NewContext.funcs,
   labels |-> NewContext.labels, pc |-> 0, out |-> <<>>, err |-> "",
   stdin |-> Str(<<>>), depth |-> 0, returned |-> FALSE, retVal |-> Unit,
   lateEval |-> FALSE, callSkew |-> FALSE, argSkew |-> FALSE]

Value(expr) == eval(FreshState, expr).v

\* The operand values for which the model has the operator's result: no
\* string concatenation, no quotient that is not an integer, no infinite or
\* negative operand of an arithmetic or bitwise operator
OpInModel(op, l, r) ==
  LET a == ToNumber(l)
      b == ToNumber(r)
      finite == a.t # "inf" /\ b.t # "inf"
  IN  CASE op = "OP_ADD" -> finite /\ l.t # "str" /\ r.t # "str"
        [] op \in {"OP_SUB", "OP_MUL"} -> finite
        [] op \in {"COMP_GT", "COMP_GE", "COMP_LT", "COMP_LE"} ->
             finite /\ ~(l.t = "str" /\ r.t = "str")
        [] op = "OP_DIV" ->
             finite /\ (a.t = "nan" \/ b.t = "nan" \/ b.n = 0
                        \/ (b.n > 0 /\ a.n % b.n = 0))
        [] op \in {"LOG_AND", "LOG_OR", "LOG_XOR"} ->
             finite /\ (a.t = "nan" \/ a.n >= 0) /\ (b.t = "nan" \/ b.n >= 0)
        [] OTHER -> TRUE

\* op over two literals
Flat(ops, ls, rs) ==
  {BinOp(op, Val(l), Val(r)) : op \in ops, l \in ls, r \in rs}

\* The values an operand expression may have for its operator: what the
\* Interpreter and the Optimizer make of it and, for the GVM, also the
\* literals it is made of
Operands(e) ==
  IF e.type = "Val" THEN {e.value}
  ELSE {Value(e), fold(e).value, e.left.value, e.right.value}

\* Expressions of literals and folded operators, nested up to two deep; a
\* divisor is a literal
FoldExprs ==
  LET flat == Flat(FoldedBinOps, FoldLits, FoldLits)
      inner == {e \in Flat(FoldedBinOps, NumLits, NumLits) :
                  OpInModel(e.op, e.left.value, e.right.value)}
      nested == {BinOp(op, d, Val(r)) : op \in FoldedBinOps, d \in inner, r \in NumLits}
                \cup {BinOp(op, Val(l), d) :
                        op \in FoldedBinOps \ {"OP_DIV"}, l \in NumLits, d \in inner}
  IN  {e \in flat : OpInModel(e.op, e.left.value, e.right.value)}
      \cup {UnaryOp(u, Val(l)) : u \in FoldedUnaryOps, l \in FoldLits}
      \cup {UnaryOp(u, e) : u \in FoldedUnaryOps, e \in inner}
      \cup {e \in nested :
              \A l \in Operands(e.left), r \in Operands(e.right) :
                OpInModel(e.op, l, r)}

\* Optimizer.optimize applied to the parser's Program
Optimize ==
  /\ optPhase = "parsed"
  /\ optOut' = optimize(optIn)
  /\ optPhase' = "optimized"
  /\ UNCHANGED <<prog, chunk, dbg, stdin, serVars, srcVars, optIn, vmVars, itVars,
               obsVars>>

FoldInit ==
  /\ prog = 1
  /\ \E e \in FoldExprs : optIn = Program(<<e>>)
  /\ RunOf(optIn)
  /\ stdin = Str(<<>>)
  /\ optPhase = "parsed"
  /\ optOut = NoNode
  /\ SerIdle
  /\ SrcIdle

FoldNext ==
  \/ Optimize
  \/ LOAD_CONST
  \/ ADD
  \/ SUB
  \/ MUL
  \/ DIV
  \/ EQ
  \/ NE
  \/ GT
  \/ GE
  \/ LT
  \/ LE
  \/ NEG
  \/ LOG_NOT
  \/ HALT

SpecFold == FoldInit /\ [][FoldNext]_vars

\* Conditions: literals, expressions that fold to a literal, and expressions
\* of the variable x, which do not fold
OptConds ==
  { Val(Num(1)), Val(Num(0)), Val(Bool(TRUE)), Val(Unit), Val(Str(<<>>)),
    BinOp("COMP_LT", Val(Num(1)), Val(Num(2))),
    BinOp("OP_SUB", Val(Num(1)), Val(Num(1))),
    BinOp("OP_DIV", Val(Num(1)), Val(Num(0))),
    Var("x"), BinOp("COMP_LT", Var("x"), Val(Num(1))),
    UnaryOp("LOG_NOT", Var("x")) }

\* Branches and loop bodies: a statement, blocks, an expression that folds,
\* an if that is dead, and a block of nothing but a dead if
OptBodies ==
  { Out(Val(Num(1))), Stmt(<<Out(Val(Num(1)))>>), Stmt(<<>>),
    BinOp("OP_ADD", Val(Num(1)), Val(Num(2))),
    Stmt(<<VarDecl("a", BinOp("OP_ADD", Val(Num(1)), Val(Num(2))))>>),
    If(Val(Num(0)), Out(Val(Num(1)))),
    Stmt(<<If(Val(Num(0)), Out(Val(Num(1))))>>) }

OptElses == {NoNode, Out(Val(Num(2))), Stmt(<<Out(Val(Num(2)))>>), Stmt(<<>>)}

OptNodes ==
  {IfElse(c, b, e) : c \in OptConds, b \in OptBodies, e \in OptElses}
  \cup {While(c, b) : c \in OptConds, b \in OptBodies}

\* let x = 1  <if or while>  out x, the node at top level or in a block;
\* one expression of literals; one declaration with such a value
OptPrograms ==
  {Program(<<VarDecl("x", Val(Num(1))), n, Out(Var("x"))>>) : n \in OptNodes}
  \cup {Program(<<VarDecl("x", Val(Num(1))), Stmt(<<n, Out(Var("x"))>>)>>) : n \in OptNodes}
  \cup {Program(<<e>>) : e \in FoldExprs}
  \cup {Program(<<VarDecl("x", e)>>) : e \in FoldExprs}

OptInit ==
  /\ prog = 1
  /\ RunOf(Programs[prog])
  /\ stdin = Str(<<>>)
  /\ optIn \in OptPrograms
  /\ optPhase = "parsed"
  /\ optOut = NoNode
  /\ SerIdle
  /\ SrcIdle

\* Optimizer.optimize applied to the Program it returned
Reoptimize ==
  /\ optPhase = "optimized"
  /\ optOut # Thrown
  /\ optOut' = optimize(optOut)
  /\ optPhase' = "reoptimized"
  /\ UNCHANGED <<prog, chunk, dbg, stdin, serVars, srcVars, optIn, vmVars, itVars,
               obsVars>>

OptNext ==
  \/ Optimize
  \/ Reoptimize

SpecOpt == OptInit /\ [][OptNext]_vars

(***************************************************************************)
(* Properties                                                              *)
(***************************************************************************)
\* The nodes an expression is built from
Children(expr) ==
  CASE expr.type \in {"VarDecl", "VarMod", "Out", "Return"} -> <<expr.value>>
    [] expr.type = "BinOp" -> <<expr.left, expr.right>>
    [] expr.type = "UnaryOp" -> <<expr.argument>>
    [] expr.type = "If" -> <<expr.cond, expr.body, expr.else>>
    [] expr.type = "While" -> <<expr.cond, expr.body>>
    [] expr.type = "Stmt" -> expr.body
    [] expr.type = "FuncDecl" -> <<expr.body>>
    [] expr.type = "FuncCall" -> expr.args
    [] expr.type = "Exit" -> <<expr.status>>
    [] OTHER -> <<>>

RECURSIVE Flatten(_)
RECURSIVE FlattenSeq(_, _)
Flatten(expr) == <<expr>> \o FlattenSeq(Children(expr), 1)

FlattenSeq(exprs, i) ==
  IF i > Len(exprs) THEN <<>> ELSE Flatten(exprs[i]) \o FlattenSeq(exprs, i + 1)

NodesOf(program) == FlattenSeq(program.body, 1)

\* Literals, let, assignment, arithmetic and comparison operators, x++/x--,
\* if/else, while, blocks, function declaration/call/return, out
CommonFeature(expr) ==
  \/ expr.type \in {"Val", "Var", "VarDecl", "VarMod", "If", "While", "Stmt",
                    "FuncDecl", "FuncCall", "Return", "Out", "None"}
  \/ expr.type = "BinOp" /\ BinOpcode(expr.op) # ""
  \/ expr.type = "UnaryOp" /\ expr.op \in {"OP_INC", "OP_DEC"}

CommonFeatures(program) ==
  \A i \in 1..Len(NodesOf(program)) : CommonFeature(NodesOf(program)[i])

NoGoto(program) ==
  \A i \in 1..Len(NodesOf(program)) : NodesOf(program)[i].type # "Goto"

VmEnded == vmStatus \in {"halted", "crashed", "exited"}

InterpreterEnded == itStatus \in {"done", "crashed", "exited"}

\* C1: for a program of the common features, the values out has written when
\* the Chunk has run on the GVM are the values out has written when the
\* Interpreter has evaluated the AST.
C1_SameOutput ==
  (CommonFeatures(Programs[prog]) /\ VmEnded /\ InterpreterEnded) => vmOut = itOut

ExpressionValued(expr) ==
  \/ expr.type \in {"Val", "Var", "BinOp", "UnaryOp", "Stmt", "FuncCall"}
  \/ expr.type = "If" /\ expr.else # NoNode

StatementValued(expr) ==
  expr.type \in {"VarDecl", "VarMod", "Out", "In", "While", "Label", "FuncDecl"}

\* C2: the code of an expression-valued node leaves the operand stack one
\* deeper than it found it, the code of a statement-valued node as deep as
\* it found it, whatever the stack held when the node was entered.
C2_NodeEffect ==
  NoGoto(Programs[prog]) =>
    \A i \in 1..Len(nodeLog) :
      /\ ExpressionValued(body[nodeLog[i].node]) => nodeLog[i].delta = 1
      /\ StatementValued(body[nodeLog[i].node]) => nodeLog[i].delta = 0

IsParam(id) ==
  \E f \in DOMAIN dbg.params : \E i \in 1..Len(dbg.params[f]) : dbg.params[f][i] = id

\* A step of the VM that executes the LOAD_VAR at ip
LoadStep == vmStatus = "running" /\ Fetch = "LOAD_VAR" /\ ip' = ip + 2

\* C3: a reference to a declared variable loads the value most recently
\* stored to the declaration the name resolves to, at top level, in a nested
\* block and in a function body that refers to a variable declared outside.
C3_LoadsLastStored ==
  [][(LoadStep /\ ip \in DOMAIN dbg.loads /\ ~IsParam(dbg.loads[ip]))
       => Top(stack') = Stored(dbg.loads[ip])]_vars

\* C4: a reference to the i-th parameter loads the i-th argument of the
\* call (or what the callee has assigned to the parameter since), however
\* many variables were declared before the function.
C4_ParamLoadsArgument ==
  [][(LoadStep /\ ip \in DOMAIN dbg.loads /\ IsParam(dbg.loads[ip]))
       => Top(stack') = Stored(dbg.loads[ip])]_vars

\* A step of the VM that executes a RET inside a call
RetStep ==
  /\ vmStatus = "running" /\ Fetch = "RET"
  /\ callStack # <<>> /\ callStack' = Pop(callStack)

\* C5: RET inside a call pops the value and the frame, restores ip and
\* baseSlot and pushes the value back, unit included, so that the stack is
\* one deeper than it was under the call's arguments.
C5_RetPushesValue ==
  [][RetStep =>
       /\ ip' = Top(callStack).returnIp
       /\ currBaseSlot' = Top(callStack).baseSlot
       /\ stack' = Append(Pop(stack), Top(stack))
       /\ Len(stack') = acts[Len(acts)].depth + 1]_vars

\* C6 (Interpreter): once `return e` has executed in a call, no further
\* expression of that call is evaluated and the call's value is e's.
C6_ReturnEndsCall == ~probe.lateEval /\ ~probe.callSkew

\* C7 (Interpreter): each parameter is bound to the value its argument
\* expression has in the caller's environment, evaluated left to right.
C7_ArgsFromCaller == ~probe.argSkew

\* The value position of a block: it is empty, or its last child is an
\* expression
YieldsValue(expr) ==
  expr.type = "Stmt" /\
    (expr.body = <<>> \/ ExpressionValued(expr.body[Len(expr.body)]))

\* C8: when the code of a block has run, the top of the operand stack is the
\* value of the block's last child expression, unit for an empty block
\* (the value the Interpreter's case "Stmt" returns).
C8_BlockValue ==
  NoGoto(Programs[prog]) =>
    \A i \in 1..Len(nodeLog) : \A j \in 1..Len(results) :
      (nodeLog[i].node = results[j].node /\ YieldsValue(body[nodeLog[i].node]))
        => nodeLog[i].top = results[j].v

\* A step of the VM that executes the STORE_VAR at ip
StoreStep == vmStatus = "running" /\ Fetch = "STORE_VAR" /\ ip' = ip + 2

\* C9: STORE_VAR s writes the top of the operand stack into
\* slots[baseSlot + s] and leaves the operand stack as it was.
C9_StoreKeepsStack ==
  [][StoreStep =>
       /\ SlotGet(slots', currBaseSlot + Byte(ip + 1)) = Top(stack)
       /\ stack' = stack]_vars

\* C10: loading the bytes of a serialized chunk gives back its code byte
\* for byte, its constants in number, order, type and value, and its
\* maxSlot.
C10_RoundTrip ==
  serPhase = "loaded" =>
    /\ loaded.err = ""
    /\ loaded.code = serIn.code
    /\ loaded.constants = serIn.constants
    /\ loaded.maxSlot = serIn.maxSlot

\* C11: when the Optimizer has optimized an expression of literals and folded
\* operators and the GVM has run the Chunk compiled from the expression as
\* parsed, the optimized Program is the one Val whose value is the value on
\* top of the operand stack.
C11_FoldEqualsRun ==
  (optPhase = "optimized" /\ vmStatus = "halted") =>
    /\ optOut # Thrown
    /\ optOut.body = <<Val(Top(stack))>>

\* The one expression of a Program that is an expression of literals, or the
\* value of its one declaration
FoldedExpr == IF optIn.body[1].type = "VarDecl" THEN optIn.body[1].value ELSE optIn.body[1]

LiteralProgram == Len(optIn.body) = 1

\* C12: the Optimizer replaces an expression of literals, also as the value
\* of a VarDecl, by the Val of the value the Interpreter gives the expression.
C12_FoldsToRuntimeValue ==
  (optPhase = "optimized" /\ LiteralProgram) =>
    /\ optOut # Thrown
    /\ optOut.body = << IF optIn.body[1].type = "VarDecl"
                        THEN VarDecl(optIn.body[1].name, Val(Value(FoldedExpr)))
                        ELSE Val(Value(FoldedExpr)) >>

\* C13: a division whose operands fold to literals, the right one to 0, is
\* optimized without an error and stays a BinOp.
C13_DivisionByZeroUnfolded ==
  (/\ optPhase = "optimized"
   /\ LiteralProgram
   /\ optIn.body[1].type = "BinOp"
   /\ optIn.body[1].op = "OP_DIV"
   /\ fold(optIn.body[1].left).type = "Val"
   /\ fold(optIn.body[1].right) = Val(Num(0))) =>
    /\ optOut # Thrown
    /\ Len(optOut.body) = 1
    /\ optOut.body[1].type = "BinOp"

\* The if or while of a Program of OptPrograms, and the nodes that stand in
\* its place in the optimized Program
InBlock == optIn.body[2].type = "Stmt"

DeadNode == IF InBlock THEN optIn.body[2].body[1] ELSE optIn.body[2]

Replacement ==
  LET tail == IF InBlock THEN optOut.body[2].body
              ELSE SubSeq(optOut.body, 2, Len(optOut.body))
  IN  SubSeq(tail, 1, Len(tail) - 1)

\* A folded branch in a body: nothing when the branch folds to nothing
Kept(node) == IF node = NoNode THEN <<>> ELSE <<node>>

\* C14: an If whose condition folds to a Val is replaced by its folded
\* then-branch when the value is truthy, by its folded else-branch when it is
\* falsy and there is an else, and removed otherwise; a While whose condition
\* folds to a falsy Val is removed; every other If or While stays an If or
\* While with its body and its else-branch, folded, in place.
C14_DeadBranches ==
  (optPhase = "optimized" /\ ~LiteralProgram) =>
    /\ optOut # Thrown
    /\ LET n == DeadNode
           c == fold(n.cond)
       IN  IF n.type = "If" /\ c.type = "Val"
           THEN Replacement =
                  IF Truthy(c.value) THEN Kept(fold(n.body))
                  ELSE IF n.else # NoNode THEN Kept(fold(n.else))
                  ELSE <<>>
           ELSE IF n.type = "While" /\ c.type = "Val" /\ ~Truthy(c.value)
           THEN Replacement = <<>>
           ELSE /\ Len(Replacement) = 1
                /\ Replacement[1].type = n.type
                /\ Replacement[1].body # NoNode
                /\ Replacement[1].body = fold(n.body)
                /\ (n.type = "If" /\ n.else # NoNode) =>
                     /\ Replacement[1].else # NoNode
                     /\ Replacement[1].else = fold(n.else)

\* C15: the operand stack is as deep at every arrival at the address of a
\* label as at the first arrival there.
C15_LabelDepth ==
  \A i, j \in 1..Len(labelLog) :
    labelLog[i].addr = labelLog[j].addr => labelLog[i].depth = labelLog[j].depth

\* C16: a program in which a VarDecl names a variable its innermost scope
\* already has is rejected by the compiler.
C16_RedeclarationRejected == dbg.redecl => chunk.err # ""

\* C17: maxSlot is the largest value nextSlot had during the compilation.
C17_MaxSlotHighWater == chunk.err = "" => chunk.maxSlot = dbg.high

\* A step of the VM that executes the instruction at ip
VmStep == vmStatus = "running" /\ <<ip, stack, vmStatus>>' # <<ip, stack, vmStatus>>

\* The number of operands the instruction at ip takes off the stack
Needs ==
  CASE Fetch \in {"ADD", "SUB", "MUL", "DIV", "EQ", "NE", "GT", "GE", "LT", "LE",
                  "LOG_AND", "LOG_OR", "LOG_XOR"} -> 2
    [] Fetch \in {"NEG", "INC", "DEC", "LOG_NOT", "POP", "OUT", "STORE_VAR",
                  "JUMP_IF_FALSE", "RET", "EXIT"} -> 1
    [] Fetch = "CALL" -> Byte(ip + 3)
    [] OTHER -> 0

\* C18: an instruction executed with fewer values on the operand stack than
\* it takes off stops the VM in its error state.
C18_UnderflowStops == [][(VmStep /\ Len(stack) < Needs) => vmStatus' = "crashed"]_vars

\* C19: POS leaves the operand stack, the slots and the call stack as they
\* are, and the VM goes on with the next instruction.
C19_PosIsNoOp ==
  [][(VmStep /\ Fetch = "POS") =>
       /\ stack' = stack
       /\ slots' = slots
       /\ callStack' = callStack
       /\ ip' = ip + 1
       /\ vmStatus' = "running"]_vars

\* C20: for every BinOp of an operator the parser produces, the compiler has
\* emitted, after the code of the two operands, exactly one opcode.
C20_OneOpcodePerBinOp ==
  \A i \in 1..Len(dbg.binops) :
    dbg.binops[i].op \in BinOps => Len(dbg.binops[i].opcodes) = 1

\* The file does not begin with the magic followed by version 1
BadHeader ==
  \/ Len(file) < 6
  \/ SubSeq(file, 1, 4) # Magic
  \/ file[5] + (256 * file[6]) # 1

\* C21: load of a file whose first four bytes are not 0x47 0x4F 0x53 0x42, or
\* whose little-endian version in the next two bytes is not 1, ends with an
\* error and returns no chunk.
C21_BadHeaderRejected ==
  (serPhase = "loaded" /\ BadHeader) =>
    /\ loaded.err # ""
    /\ loaded.code = <<>>
    /\ loaded.constants = <<>>

\* load has rejected a file with the right magic and version 2
C21_Witness ==
  /\ serPhase = "loaded"
  /\ Len(file) > 6
  /\ SubSeq(file, 1, 4) = Magic
  /\ file[5] + (256 * file[6]) = 2
  /\ loaded.err = "Unsupported bytecode version"

\* The values out writes when every call of f runs the declaration of the
\* innermost enclosing scope
ScopedOutput(program) ==
  CASE program = ProgFuncShadow -> <<Num(2), Num(1)>>
    [] program = ProgFuncNested -> <<Num(1), Num(2), Num(1)>>
    [] OTHER -> <<>>

\* C22: in a program where a block declares a function of the name of an
\* outer function, both engines run to their end and the calls inside the
\* block have run the inner function, the calls outside it the outer one.
C22_InnermostFunction ==
  Programs[prog] \in {ProgFuncShadow, ProgFuncNested} =>
    /\ VmEnded => (vmStatus = "halted" /\ vmOut = ScopedOutput(Programs[prog]))
    /\ InterpreterEnded => (itStatus = "done" /\ itOut = ScopedOutput(Programs[prog]))

\* Both engines have run the program of the README to its end
C22_Witness ==
  /\ Programs[prog] = ProgFuncShadow
  /\ vmStatus = "halted"
  /\ itStatus = "done"
  /\ vmOut = <<Num(2), Num(1)>>
  /\ itOut = <<Num(2), Num(1)>>

\* The Interpreter evaluates the top-level expression at pc
InterpreterStep ==
  /\ itStatus = "running"
  /\ pc < Len(body)
  /\ <<pc, itStatus, results>>' # <<pc, itStatus, results>>

\* The top-level expression at pc is `goto name`, or an if whose condition
\* selects the branch `goto name`
GotoTaken(name) ==
  LET expr == body[pc + 1]
      cond == eval(EvalState, expr.cond)
  IN  \/ expr = Goto(name)
      \/ /\ expr.type = "If"
         /\ cond.st.err = ""
         /\ IF Truthy(cond.v) THEN expr.body = Goto(name) ELSE expr.else = Goto(name)

\* The index in the program's body of the expression that follows `name:`
AfterLabel(name) == CHOOSE i \in 1..Len(body) : body[i] = Label(name)

\* C23: when the Interpreter evaluates a top-level goto, or a top-level if
\* whose chosen branch is a goto, of a label of the program, it goes on with
\* the top-level expression that follows the label.
C23_GotoContinuesAfterLabel ==
  [][\A i \in 1..Len(body) :
       (body[i].type = "Label" /\ InterpreterStep /\ GotoTaken(body[i].name)) =>
         /\ pc' = AfterLabel(body[i].name)
         /\ itStatus' = "running"]_vars

\* The Interpreter has taken the forward goto and the backward one: out 9
\* was not evaluated, and out n has been twice
C23_Witness ==
  /\ Programs[prog] = ProgForwardGoto
  /\ itStatus = "done"
  /\ itOut = <<Num(2), Num(1)>>

\* C24: Parser.parse, once called, comes to an end on every text: it returns
\* a Program or throws a diagnostic.
C24_ParseTerminates ==
  [](parsePhase # "start" => <>(parsePhase \in {"returned", "aborted"}))

\* What parse comes to when it has built `node` from the first tokens of the
\* text and goes on at the parser state p
ParsedFrom(p, node) ==
  LET end == parseLoop(text, p, <<node>>)
  IN  [err |-> end.p.err,
       program |-> IF end.p.err = "" THEN Program(end.node) ELSE NoNode]

\* C25: when the text begins with `goto NAME`, `in NAME` or `exit expr`, parse
\* builds one Goto, In or Exit node from these tokens and parses the rest of
\* the text from the first token that follows them.
C25_ConstructConsumed ==
  parsePhase # "start" =>
    LET p0 == advance(text, NewParser)
        p1 == advance(text, p0)
        name == currentToken(p1).name
        status == expression(text, p1)
    IN  /\ (currentToken(p0).type = "GOTO" /\ currentToken(p1).type = "IDENT") =>
             parsed = ParsedFrom(advance(text, p1), Goto(name))
        /\ (currentToken(p0).type = "IN" /\ currentToken(p1).type = "IDENT") =>
             parsed = ParsedFrom(advance(text, p1), In(name))
        /\ (currentToken(p0).type = "EXIT" /\ status.p.err = "") =>
             parsed = ParsedFrom(status.p, Exit(status.node))

\* The Interpreter evaluates a top-level `let` at pc
DeclStep == InterpreterStep /\ body[pc + 1].type = "VarDecl"

\* The current scope already holds the name the `let` at pc declares
Redeclares == body[pc + 1].name \in DOMAIN context.vars[Len(context.vars)]

\* C26: after a top-level `let name = v` has succeeded, getVar(name) returns
\* v, also when v is unit; and a `let` of a name the current scope holds,
\* whatever its value, fails.
C26_SetThenGet ==
  [][DeclStep =>
       LET value == eval(EvalState, body[pc + 1].value).v
           got == getVar([EvalState EXCEPT !.vars = context'.vars], body[pc + 1].name)
       IN  /\ itStatus' = "running" => (got.st.err = "" /\ got.v = value)
           /\ Redeclares => itStatus' = "crashed"]_vars

\* C27: the LOAD_CONST compiled from a Val pushes the literal that the Val
\* added to the chunk's constants.
C27_LoadConstPushesLiteral ==
  [][(VmStep /\ Fetch = "LOAD_CONST") =>
       \A val \in dbg.vals :
         val.addr = ip => Top(stack') = chunk.constants[val.idx + 1]]_vars

\* C28: in a chunk the compiler produces, the operand bytes of every JUMP,
\* JUMP_IF_FALSE and CALL decode to the address the compiler meant, that
\* address is the first byte of an instruction of the chunk, and no such
\* instruction is left with its placeholder.
C28_JumpTargets ==
  chunk.err = "" =>
    /\ \A i \in 1..Len(dbg.jumps) :
         /\ TargetAt(dbg.jumps[i].at) = dbg.jumps[i].to
         /\ dbg.jumps[i].to < Len(chunk.code)
         /\ dbg.opAt[dbg.jumps[i].to + 1]
    /\ \A at \in 0..(Len(chunk.code) - 1) :
         (dbg.opAt[at + 1] /\ OpName(Byte(at)) \in {"JUMP", "JUMP_IF_FALSE", "CALL"})
           => \E i \in 1..Len(dbg.jumps) : dbg.jumps[i].at = at

\* The character nextToken looks at after the spaces, and the one after it
SignAt == current(text, skipSpaces(text, lex.pos))

AfterSign == current(text, skipSpaces(text, lex.pos) + 1)

\* The token the rule of the previously produced token gives a sign
SignRule ==
  IF lex.tok.type \in {"EOF", "LPAREN", "OP_EQ", "COLON"}
  THEN IF SignAt = "+" THEN "OP_POS" ELSE "OP_NEG"
  ELSE IF AfterSign = SignAt
       THEN IF SignAt = "+" THEN "OP_INC" ELSE "OP_DEC"
  ELSE IF SignAt = "+" THEN "OP_ADD" ELSE "OP_SUB"

\* C29: for + and - the lexer emits POS/NEG exactly when the token produced
\* before is none/EOF, (, = or :, and otherwise ADD/SUB, or INC/DEC when the
\* same character follows immediately.
C29_SignByPreviousToken ==
  [][(NextToken /\ SignAt \in {"+", "-"}) => lex'.tok.type = SignRule]_vars

RECURSIVE SlotCounts(_)
SlotCounts(scopes) ==
  IF scopes = <<>> THEN 0 ELSE scopes[1].slotCount + SlotCounts(Tail(scopes))

\* The declarations visible through a scope stack: scope and name
Visible(scopes) ==
  UNION {{<<i, name>> : name \in DOMAIN scopes[i].vars} : i \in 1..Len(scopes)}

PointOk(p) ==
  /\ p.nextSlot = SlotCounts(p.scopes)
  /\ \A d \in Visible(p.scopes) : p.scopes[d[1]].vars[d[2]] \in 0..(p.nextSlot - 1)
  /\ \A d, e \in Visible(p.scopes) :
       p.scopes[d[1]].vars[d[2]] = p.scopes[e[1]].vars[e[2]] => d = e
  /\ p.entry # -1 => p.nextSlot = p.entry

\* C30: at every point of a compilation nextSlot is the sum of slotCount over
\* the scope stack, every visible name has a slot in [0, nextSlot), no two
\* visible declarations share a slot, and after a scope is exited nextSlot is
\* what it was when the scope was entered.
C30_SlotAllocation == \A i \in 1..Len(dbg.points) : PointOk(dbg.points[i])

C30_Witness ==
  /\ chunk.err = ""
  /\ \E i \in 1..Len(dbg.points) :
       /\ Len(dbg.points[i].scopes) >= 2
       /\ \E d, e \in Visible(dbg.points[i].scopes) : d[1] # e[1]
  /\ \E i \in 1..Len(dbg.points) : dbg.points[i].entry >= 1
  /\ \E i \in 2..Len(dbg.points) :
       /\ dbg.points[i].entry # -1
       /\ dbg.points[i].nextSlot < dbg.points[i - 1].nextSlot

\* The nodes of the bodies of the functions a program declares
FunctionNodes(program) ==
  LET nodes == NodesOf(program)
  IN  UNION {{Flatten(nodes[i].body)[j] : j \in 1..Len(Flatten(nodes[i].body))} :
               i \in {k \in 1..Len(nodes) : nodes[k].type = "FuncDecl"}}

\* No while, no goto, no exit, and no call from the body of a function
StraightLine(program) ==
  /\ \A i \in 1..Len(NodesOf(program)) :
       NodesOf(program)[i].type \notin {"While", "Goto", "Exit"}
  /\ \A node \in FunctionNodes(program) : node.type # "FuncCall"

\* C31: the chunk compiled from a program without while, goto and recursive
\* call ends with the one HALT compile appends after the code of the last
\* top-level expression; the VM fetches only inside the code and its run ends
\* at HALT.
C31_RunsToHalt ==
  (StraightLine(Programs[prog]) /\ chunk.err = "") =>
    /\ chunk.code[Len(chunk.code)] = Op("HALT")
    /\ dbg.marks[Len(dbg.marks)] = Len(chunk.code) - 1
    /\ vmStatus = "running" => ip \in 0..(Len(chunk.code) - 1)
    /\ VmEnded => vmStatus = "halted"

\* A step of the VM that executes the STORE_VAR of the code of x++ or x--
IncDecStore ==
  /\ vmStatus = "running" /\ Fetch = "STORE_VAR" /\ ip' = ip + 2
  /\ ip \in DOMAIN dbg.stores
  /\ ip >= 1 /\ dbg.opAt[ip] /\ OpName(Byte(ip - 1)) \in {"INC", "DEC"}

\* C32: the code compiled for x++ (x--) stores the old value of x plus
\* (minus) one to x and leaves exactly the old value of x on the operand
\* stack, one value above what the stack held before the expression: the
\* result and the update of the Interpreter's OP_INC and OP_DEC.
C32_IncDecStoresAndYieldsOld ==
  [][IncDecStore =>
       LET old == Stored(dbg.stores[ip])
       IN  /\ Top(stack) = IF OpName(Byte(ip - 1)) = "INC" THEN JsInc(old) ELSE JsDec(old)
           /\ Len(stack) >= 2
           /\ stack' = Pop(stack)
           /\ Top(stack') = old]_vars

\* The slot array the running callee found when it was called
CallerSlots == acts[Len(acts)].slots

\* A step of the VM that reads or writes slots[currBaseSlot + operand]
SlotStep ==
  /\ vmStatus = "running" /\ Fetch \in {"LOAD_VAR", "STORE_VAR", "IN"}
  /\ ip' = ip + 2

\* C33: between a CALL and its RET the slot an instruction reads or writes
\* is not below the callee's baseSlot, which is the length the slot array
\* had before the CALL; the slots of every pending caller keep their values;
\* and RET leaves the slot array exactly as it was before the CALL.
C33_FramesDisjoint ==
  /\ [](Len(acts) = Len(callStack) + 1)
  /\ [](callStack # <<>> =>
          /\ currBaseSlot = Len(CallerSlots)
          /\ Top(callStack).baseSlot <= currBaseSlot)
  /\ [](\A j \in 2..Len(acts) :
          /\ Len(acts[j].slots) <= Len(slots)
          /\ \A k \in 1..Len(acts[j].slots) : slots[k] = acts[j].slots[k])
  /\ [][(SlotStep /\ callStack # <<>>) =>
          /\ currBaseSlot + Byte(ip + 1) >= Len(CallerSlots)
          /\ \A k \in 1..Len(slots') :
               (k > Len(slots) \/ slots'[k] # slots[k]) => k > Len(CallerSlots)]_vars
  /\ [][RetStep => slots' = CallerSlots]_vars

\* C33's case: a call made from inside a call has returned to its caller,
\* which holds parameters or locals of its own
C33_Witness ==
  /\ vmStatus = "running" /\ callStack # <<>>
  /\ ip >= 4 /\ dbg.opAt[ip - 3] /\ OpName(Byte(ip - 4)) = "CALL"
  /\ Len(slots) > currBaseSlot
  /\ slots[currBaseSlot + 1] # Unit

\* C34: optimizing is idempotent: optimize applied to a Program that
\* optimize returned gives that Program again, also when every child of one
\* of its blocks was eliminated.
C34_OptimizeIdempotent ==
  [][(optPhase = "optimized" /\ optPhase' = "reoptimized") => optOut' = optOut]_vars

\* The children a node cannot be without
Required(expr) ==
  CASE expr.type = "VarDecl" -> <<expr.value>>
    [] expr.type = "BinOp" -> <<expr.left, expr.right>>
    [] expr.type = "UnaryOp" -> <<expr.argument>>
    [] expr.type = "If" -> <<expr.cond, expr.body>>
    [] expr.type = "While" -> <<expr.cond, expr.body>>
    [] expr.type \in {"Stmt", "Program"} -> expr.body
    [] OTHER -> <<>>

\* No node of the program lacks a required child
WellFormed(program) ==
  LET nodes == <<program>> \o NodesOf(program)
  IN  \A i \in 1..Len(nodes) :
        \A k \in 1..Len(Required(nodes[i])) : Required(nodes[i])[k] # NoNode

\* C35: every Program optimize returns is a well-formed AST: the value of
\* each VarDecl, the operands of each BinOp and UnaryOp, the condition and
\* body of each If and While and every element of each block and of the
\* Program is a node, also when the input has an empty block or a dead
\* branch in such a position.
C35_OptimizedWellFormed ==
  (optPhase = "optimized" /\ optOut # Thrown) => WellFormed(optOut)

\* C36: when Interpreter.execute has returned, or has thrown an error from
\* inside a block or a function call, the Context's stack of variable scopes
\* and its stack of function scopes are as deep as they were before the
\* call, and as deep as each other.
C36_ScopesRestored ==
  itStatus \in {"done", "crashed"} =>
    /\ Len(context.vars) = Len(NewContext.vars)
    /\ Len(context.funcs) = Len(NewContext.funcs)
    /\ Len(context.vars) = Len(context.funcs)

=============================================================================
